---- MODULE Spec2Model ----
(***************************************************************************)
(* Model of the email-statistics aggregation engine                        *)
(* (src/src/analyzers/email_analyzer.py, class EmailAnalyzer).             *)
(*                                                                         *)
(* Text is a sequence of one-character strings, so that pattern matching,  *)
(* case folding and splitting are computed character by character.         *)
(* A timestamp is a number of minutes since 2024-01-01 00:00 (a Monday).   *)
(* A quotient a / b of the code is the exact fraction Frac(a, b).          *)
(*                                                                         *)
(* The module also models the registry of analysis jobs of the web         *)
(* interface (src/src/api/routes/analysis.py) and the provider registry    *)
(* of the configuration manager (src/src/core/config_manager.py).          *)
(***************************************************************************)
EXTENDS Integers, Sequences, FiniteSets, TLC

VARIABLES emails, pc, outcome, results,
          analysis_jobs, background_tasks, task, issued, clock, response,
          email_providers, config_data, config_file, app_settings, last_call,
          _connected, connection, connects, manager_call

analyzerVars == <<emails, pc, outcome, results>>

jobVars == <<analysis_jobs, background_tasks, task, issued, clock, response>>

configVars == <<email_providers, config_data, config_file, app_settings, last_call>>

managerVars == <<_connected, connection, connects, manager_call>>

vars == <<analyzerVars, jobVars, configVars, managerVars>>

(***************************************************************************)
(* Generic helpers: optional values, fractions, character classes.         *)
(***************************************************************************)
None == [none |-> TRUE]

Some(v) == [none |-> FALSE, v |-> v]

RECURSIVE GCD(_, _)
GCD(a, b) == IF b = 0 THEN a ELSE GCD(b, a % b)

Frac(n, d) ==
  LET g == GCD(n, d)
  IN  IF n = 0 THEN [num |-> 0, den |-> 1] ELSE [num |-> n \div g, den |-> d \div g]

UpperSeq ==
  <<"A","B","C","D","E","F","G","H","I","J","K","L","M",
    "N","O","P","Q","R","S","T","U","V","W","X","Y","Z">>

LowerSeq ==
  <<"a","b","c","d","e","f","g","h","i","j","k","l","m",
    "n","o","p","q","r","s","t","u","v","w","x","y","z">>

UpperSet == {UpperSeq[i] : i \in 1..26}

LowerSet == {LowerSeq[i] : i \in 1..26}

LetterSet == UpperSet \cup LowerSet

DigitSet == {"0","1","2","3","4","5","6","7","8","9"}

SpaceSet == {" ", "\t", "\n", "\r"}

LowerChar(c) ==
  IF c \in UpperSet THEN LowerSeq[CHOOSE i \in 1..26 : UpperSeq[i] = c] ELSE c

\* str.lower()
Lower(s) == [i \in 1..Len(s) |-> LowerChar(s[i])]

\* truthiness of an optional text: neither None nor the empty string
Truthy(o) == ~o.none /\ o.v # <<>>

RECURSIVE SumSeq(_)
SumSeq(s) == IF s = <<>> THEN 0 ELSE Head(s) + SumSeq(Tail(s))

SetMin(S) == CHOOSE x \in S : \A y \in S : x <= y

SetMax(S) == CHOOSE x \in S : \A y \in S : x >= y

(***************************************************************************)
(* Timestamps.                                                             *)
(***************************************************************************)
DigitStr == <<"0","1","2","3","4","5","6","7","8","9">>

TwoDigits(n) == DigitStr[(n \div 10) + 1] \o DigitStr[(n % 10) + 1]

\* datetime.strftime('%Y-%m-%d'): the calendar day, the time of day dropped
\* (the timestamps of the model lie in January 2024)
strftime(t) == "2024-01-" \o TwoDigits((t \div 1440) + 1)

\* datetime.hour
HourOf(t) == (t \div 60) % 24

\* datetime.weekday(): Monday is 0
WeekdayOf(t) == (t \div 1440) % 7

(***************************************************************************)
(* Total count, total size, date range.                                    *)
(***************************************************************************)
BytesPerMB == 1048576

\* a faulty variant of _get_date_range: the first and last timestamps in input order
_get_date_range_firstlast(es) ==
  IF es = <<>> THEN "No emails"
  ELSE LET idx == {i \in 1..Len(es) : ~es[i].date.none}
       IN  IF idx = {} THEN "No valid dates"
           ELSE strftime(es[SetMin(idx)].date.v) \o " to " \o strftime(es[SetMax(idx)].date.v)

_get_date_range(es) ==
  IF es = <<>> THEN "No emails"
  ELSE LET dates == {es[i].date.v : i \in {j \in 1..Len(es) : ~es[j].date.none}}
       IN  IF dates = {} THEN "No valid dates"
           ELSE strftime(SetMin(dates)) \o " to " \o strftime(SetMax(dates))

_calculate_total_size(es) ==
  LET total_bytes == SumSeq([i \in 1..Len(es) |-> es[i].size])
  IN  Frac(total_bytes, BytesPerMB)

(***************************************************************************)
(* collections.Counter: an insertion-ordered list of <<key, count>> pairs. *)
(***************************************************************************)
CounterHas(c, k) == \E i \in 1..Len(c) : c[i][1] = k

\* counter[k] += 1
CounterInc(c, k) ==
  IF CounterHas(c, k)
  THEN [i \in 1..Len(c) |-> IF c[i][1] = k THEN <<k, c[i][2] + 1>> ELSE c[i]]
  ELSE Append(c, <<k, 1>>)

\* counter.update(keys): the keys counted in order.  The first half of the
\* keys is counted, then the second half; the test on the counter of the
\* first half, which is never empty, makes the evaluation follow that order.
RECURSIVE CounterUpdate(_, _)
CounterUpdate(c, keys) ==
  IF keys = <<>> THEN c
  ELSE IF Len(keys) = 1 THEN CounterInc(c, keys[1])
  ELSE LET first == CounterUpdate(c, SubSeq(keys, 1, Len(keys) \div 2))
       IN  IF first = <<>> THEN first
           ELSE CounterUpdate(first, SubSeq(keys, (Len(keys) \div 2) + 1, Len(keys)))

\* a faulty variant of InsertByCount: an item goes before the items of equal count
InsertByCount_unstable(sorted, x) ==
  LET before == {i \in 1..Len(sorted) : sorted[i][2] > x[2]}
      n == IF before = {} THEN 0 ELSE SetMax(before)
  IN  SubSeq(sorted, 1, n) \o <<x>> \o SubSeq(sorted, n + 1, Len(sorted))

\* sorted(..., key=count, reverse=True) is stable: an item goes after every
\* item already placed whose count is at least its own
InsertByCount(sorted, x) ==
  LET before == {i \in 1..Len(sorted) : sorted[i][2] >= x[2]}
      n == IF before = {} THEN 0 ELSE SetMax(before)
  IN  SubSeq(sorted, 1, n) \o <<x>> \o SubSeq(sorted, n + 1, Len(sorted))

\* the items placed one after the other: the first half of them, then the
\* second half, evaluated in that order as in CounterUpdate
RECURSIVE SortByCount(_, _)
SortByCount(acc, c) ==
  IF c = <<>> THEN acc
  ELSE IF Len(c) = 1 THEN InsertByCount(acc, c[1])
  ELSE LET first == SortByCount(acc, SubSeq(c, 1, Len(c) \div 2))
       IN  IF first = <<>> THEN first
           ELSE SortByCount(first, SubSeq(c, (Len(c) \div 2) + 1, Len(c)))

Prefix(s, n) == SubSeq(s, 1, IF Len(s) < n THEN Len(s) ELSE n)

\* Counter.most_common(n)
most_common(c, n) == Prefix(SortByCount(<<>>, c), n)

(***************************************************************************)
(* The address pattern of _analyze_senders,                                *)
(*   [a-zA-Z0-9._%+-]+@[a-zA-Z0-9.-]+\.[a-zA-Z]{2,}                        *)
(* and the domain pattern of _analyze_domains,                             *)
(*   @([a-zA-Z0-9.-]+\.[a-zA-Z]{2,})                                       *)
(* as re.search runs them: leftmost match, greedy quantifiers.             *)
(***************************************************************************)
LocalChars == LetterSet \cup DigitSet \cup {".", "_", "%", "+", "-"}

DomainChars == LetterSet \cup DigitSet \cup {".", "-"}

\* the last index of the longest run of characters of C that starts at i
\* (i - 1 when s[i] is not in C)
RunEnd(s, i, C) ==
  LET stop == {j \in i..Len(s) : s[j] \notin C}
  IN  IF stop = {} THEN Len(s) ELSE SetMin(stop) - 1

\* for an "@" at index a: the end of [a-zA-Z0-9.-]+\.[a-zA-Z]{2,} matched
\* right after it, or 0. The first part is greedy, so the "." taken is the
\* last one of the run that two letters follow.
DomainEnd(s, a) ==
  LET e == RunEnd(s, a + 1, DomainChars)
      dots == {p \in (a + 2)..e :
                 /\ s[p] = "."
                 /\ p + 2 <= Len(s)
                 /\ s[p + 1] \in LetterSet
                 /\ s[p + 2] \in LetterSet}
  IN  IF dots = {} THEN 0 ELSE RunEnd(s, SetMax(dots) + 1, LetterSet)

\* the end of the address pattern matched from index i, or 0
AddressEnd(s, i) ==
  LET a == RunEnd(s, i, LocalChars) + 1
  IN  IF a > i /\ a <= Len(s) /\ s[a] = "@" THEN DomainEnd(s, a) ELSE 0

\* re.search(address pattern, s): the matched text, or None
SearchAddress(s) ==
  LET starts == {i \in 1..Len(s) : AddressEnd(s, i) # 0}
  IN  IF starts = {} THEN None
      ELSE LET i == SetMin(starts) IN Some(SubSeq(s, i, AddressEnd(s, i)))

\* re.search(domain pattern, s): group 1, or None
SearchDomain(s) ==
  LET ats == {a \in 1..Len(s) : s[a] = "@" /\ DomainEnd(s, a) # 0}
  IN  IF ats = {} THEN None
      ELSE LET a == SetMin(ats) IN Some(SubSeq(s, a + 1, DomainEnd(s, a)))

(***************************************************************************)
(* Top senders.                                                            *)
(***************************************************************************)
TopSendersLimit == 20

\* the key a non-empty sender is counted under
SenderKey(sender) ==
  LET email_match == SearchAddress(sender)
  IN  IF ~email_match.none THEN email_match.v ELSE sender

RECURSIVE SenderCounter(_, _)
SenderCounter(c, es) ==
  IF es = <<>> THEN c
  ELSE LET email == Head(es)
       IN  SenderCounter(IF email.sender # <<>> THEN CounterInc(c, SenderKey(email.sender)) ELSE c,
                         Tail(es))

_analyze_senders(es) == most_common(SenderCounter(<<>>, es), TopSendersLimit)

(***************************************************************************)
(* Activity by time of day, by weekday, by hour.                           *)
(***************************************************************************)
\* a faulty variant of TimeBand: the morning band closed at 12, as in "6 <= h <= 12"
TimeBand_closed(hour) ==
  IF 6 <= hour /\ hour <= 12 THEN "Morning (6-12)"
  ELSE IF 12 <= hour /\ hour < 17 THEN "Afternoon (12-17)"
  ELSE IF 17 <= hour /\ hour < 22 THEN "Evening (17-22)"
  ELSE "Night (22-6)"

TimeBand(hour) ==
  IF 6 <= hour /\ hour < 12 THEN "Morning (6-12)"
  ELSE IF 12 <= hour /\ hour < 17 THEN "Afternoon (12-17)"
  ELSE IF 17 <= hour /\ hour < 22 THEN "Evening (17-22)"
  ELSE "Night (22-6)"

SeqToSet(s) == {s[i] : i \in 1..Len(s)}

\* dict(defaultdict(int)) after "d[key] += 1" for every key of keys: only the
\* keys that were counted are present
CountDict(keys) ==
  [k \in SeqToSet(keys) |-> Cardinality({i \in 1..Len(keys) : keys[i] = k})]

\* the timestamps of the records that have one ("if email.date"), in order
DatesOf(es) ==
  LET dated == SelectSeq(es, LAMBDA email : ~email.date.none)
  IN  [i \in 1..Len(dated) |-> dated[i].date.v]

_analyze_time_activity(es) ==
  LET dates == DatesOf(es)
  IN  CountDict([i \in 1..Len(dates) |-> TimeBand(HourOf(dates[i]))])

day_names == <<"Monday", "Tuesday", "Wednesday", "Thursday", "Friday", "Saturday", "Sunday">>

_analyze_daily_activity(es) ==
  LET dates == DatesOf(es)
  IN  CountDict([i \in 1..Len(dates) |-> day_names[WeekdayOf(dates[i]) + 1]])

_analyze_hourly_activity(es) ==
  LET dates == DatesOf(es)
  IN  CountDict([i \in 1..Len(dates) |-> HourOf(dates[i])])

(***************************************************************************)
(* Tokens.                                                                 *)
(***************************************************************************)
WordChars == LetterSet \cup DigitSet \cup {"_"}

\* re.findall(r"\b\w+\b", s): the maximal runs of word characters, in order
RECURSIVE WordsFrom(_, _)
WordsFrom(s, i) ==
  IF i > Len(s) THEN <<>>
  ELSE IF s[i] \notin WordChars THEN WordsFrom(s, i + 1)
  ELSE LET e == RunEnd(s, i, WordChars)
       IN  <<SubSeq(s, i, e)>> \o WordsFrom(s, e + 1)

Words(s) == WordsFrom(s, 1)

\* a faulty variant of AlphaWords: runs of two letters are tokens too
AlphaWords_short(s) ==
  SelectSeq(Words(s), LAMBDA w : Len(w) >= 2 /\ \A i \in 1..Len(w) : w[i] \in LetterSet)

\* re.findall(r"\b[a-zA-Z]{3,}\b", s): the runs of word characters that are
\* letters only and at least three long
AlphaWords(s) ==
  SelectSeq(Words(s), LAMBDA w : Len(w) >= 3 /\ \A i \in 1..Len(w) : w[i] \in LetterSet)

\* str(x) inside an f-string: None is written "None"
Str(o) == IF o.none THEN <<"N", "o", "n", "e">> ELSE o.v

\* f"{email.subject} {email.body}".lower()
SubjectAndBody(email) == Lower(Str(email.subject) \o <<" ">> \o email.body)

(***************************************************************************)
(* Subject analysis.                                                       *)
(***************************************************************************)
RECURSIVE ConcatAll(_)
ConcatAll(ss) == IF ss = <<>> THEN <<>> ELSE Head(ss) \o ConcatAll(Tail(ss))

_analyze_subjects(es) ==
  LET with_subject == SelectSeq(es, LAMBDA email : Truthy(email.subject))
      subject_lengths == [i \in 1..Len(with_subject) |-> Len(with_subject[i].subject.v)]
      subject_words ==
        ConcatAll([i \in 1..Len(with_subject) |-> Words(Lower(with_subject[i].subject.v))])
      lengths == {subject_lengths[i] : i \in 1..Len(subject_lengths)}
  IN  [avg_length |-> IF subject_lengths # <<>>
                      THEN Frac(SumSeq(subject_lengths), Len(subject_lengths))
                      ELSE Frac(0, 1),
       max_length |-> IF subject_lengths # <<>> THEN SetMax(lengths) ELSE 0,
       min_length |-> IF subject_lengths # <<>> THEN SetMin(lengths) ELSE 0,
       common_words |-> most_common(CounterUpdate(<<>>, subject_words), 20),
       total_words |-> Len(subject_words)]

(***************************************************************************)
(* Attachment analysis.                                                    *)
(***************************************************************************)
AttachmentTypesLimit == 10

\* a faulty variant of AttachmentExt: the text after the first "." instead of the last
AttachmentExt_first(attachment) ==
  LET dots == {i \in 1..Len(attachment) : attachment[i] = "."}
  IN  IF dots # {}
      THEN Lower(SubSeq(attachment, SetMin(dots) + 1, Len(attachment)))
      ELSE <<"n","o","_","e","x","t","e","n","s","i","o","n">>

\* the key an attachment filename is counted under:
\* attachment.split(".")[-1].lower(), or "no_extension"
AttachmentExt(attachment) ==
  LET dots == {i \in 1..Len(attachment) : attachment[i] = "."}
  IN  IF dots # {}
      THEN Lower(SubSeq(attachment, SetMax(dots) + 1, Len(attachment)))
      ELSE <<"n","o","_","e","x","t","e","n","s","i","o","n">>

_analyze_attachments(es) ==
  LET with_att == SelectSeq(es, LAMBDA email : email.attachments # <<>>)
      all_att == ConcatAll([i \in 1..Len(with_att) |-> with_att[i].attachments])
      attachment_types ==
        CounterUpdate(<<>>, [i \in 1..Len(all_att) |-> AttachmentExt(all_att[i])])
      emails_with_attachments == Len(with_att)
  IN  [emails_with_attachments |-> emails_with_attachments,
       total_attachments |-> Len(all_att),
       attachment_types |-> most_common(attachment_types, AttachmentTypesLimit),
       attachment_rate |-> IF es # <<>>
                           THEN Frac(emails_with_attachments * 100, Len(es))
                           ELSE Frac(0, 1)]

(***************************************************************************)
(* Size distribution.                                                      *)
(***************************************************************************)
\* a faulty variant of SizeBand: the bands closed above, as in "size <= 1024"
SizeBand_closed(size) ==
  IF size <= 1024 THEN "Small (< 1KB)"
  ELSE IF size <= 10 * 1024 THEN "Medium (1KB - 10KB)"
  ELSE IF size <= 100 * 1024 THEN "Large (10KB - 100KB)"
  ELSE "Very Large (> 100KB)"

SizeBand(size) ==
  IF size < 1024 THEN "Small (< 1KB)"
  ELSE IF size < 10 * 1024 THEN "Medium (1KB - 10KB)"
  ELSE IF size < 100 * 1024 THEN "Large (10KB - 100KB)"
  ELSE "Very Large (> 100KB)"

SizeBandNames ==
  {"Small (< 1KB)", "Medium (1KB - 10KB)", "Large (10KB - 100KB)", "Very Large (> 100KB)"}

\* {} is the empty mapping <<>>
_analyze_size_distribution(es) ==
  LET sizes == [i \in 1..Len(es) |-> es[i].size]
      size_set == {sizes[i] : i \in 1..Len(sizes)}
  IN  IF sizes = <<>> THEN <<>>
      ELSE [size_ranges |->
              [b \in SizeBandNames |-> Cardinality({i \in 1..Len(sizes) : SizeBand(sizes[i]) = b})],
            avg_size |-> Frac(SumSeq(sizes), Len(sizes)),
            max_size |-> SetMax(size_set),
            min_size |-> SetMin(size_set)]

(***************************************************************************)
(* Thread grouping.                                                        *)
(***************************************************************************)
ReplyPrefixes == {<<"r","e">>, <<"f","w","d">>, <<"f","w">>}

\* re.sub(r"^(Re|Fwd|FW|RE|FW):\s*", "", subject, flags=re.IGNORECASE):
\* one prefix at the start of the subject, with the white space after its
\* colon, is removed; nothing else is
StripPrefix(subject) ==
  LET hits == {p \in ReplyPrefixes :
                 /\ Len(subject) >= Len(p) + 1
                 /\ Lower(SubSeq(subject, 1, Len(p))) = p
                 /\ subject[Len(p) + 1] = ":"}
  IN  IF hits = {} THEN subject
      ELSE LET p == CHOOSE q \in hits : TRUE
               e == RunEnd(subject, Len(p) + 2, SpaceSet)
           IN  SubSeq(subject, e + 1, Len(subject))

\* a faulty variant of ThreadKey: the prefix is stripped but the case is kept
ThreadKey_cased(subject) == StripPrefix(subject)

\* clean_subject.lower()
ThreadKey(subject) == Lower(StripPrefix(subject))

\* thread_groups[key].append(email): an insertion-ordered list of
\* <<key, members>> pairs
GroupAppend(g, k, email) ==
  IF \E i \in 1..Len(g) : g[i][1] = k
  THEN [i \in 1..Len(g) |-> IF g[i][1] = k THEN <<k, Append(g[i][2], email)>> ELSE g[i]]
  ELSE Append(g, <<k, <<email>>>>)

RECURSIVE ThreadGroups(_, _)
ThreadGroups(g, es) ==
  IF es = <<>> THEN g
  ELSE LET email == Head(es)
       IN  ThreadGroups(IF Truthy(email.subject)
                        THEN GroupAppend(g, ThreadKey(email.subject.v), email)
                        ELSE g,
                        Tail(es))

TopThreadsLimit == 10

\* a faulty variant of IsThread: a group of one member counts as a thread
IsThread_single(thread_emails) == Len(thread_emails) >= 1

IsThread(thread_emails) == Len(thread_emails) > 1

\* a faulty variant of _analyze_threads: top_threads is not cut
_analyze_threads_unlimited(es) ==
  LET groups == SelectSeq(ThreadGroups(<<>>, es), LAMBDA g : IsThread(g[2]))
      stats == [i \in 1..Len(groups) |->
                  <<[subject |-> groups[i][1],
                     count |-> Len(groups[i][2]),
                     date_range |-> _get_date_range(groups[i][2])],
                    Len(groups[i][2])>>]
      sorted == SortByCount(<<>>, stats)
      thread_stats == [i \in 1..Len(sorted) |-> sorted[i][1]]
  IN  [total_threads |-> Len(SelectSeq(thread_stats, LAMBDA t : t.count > 1)),
       largest_thread |-> IF thread_stats # <<>> THEN Some(thread_stats[1]) ELSE None,
       avg_thread_size |-> IF thread_stats # <<>>
                           THEN Frac(SumSeq([i \in 1..Len(thread_stats) |-> thread_stats[i].count]),
                                     Len(thread_stats))
                           ELSE Frac(0, 1),
       top_threads |-> thread_stats]

_analyze_threads(es) ==
  LET groups == SelectSeq(ThreadGroups(<<>>, es), LAMBDA g : IsThread(g[2]))
      stats == [i \in 1..Len(groups) |->
                  <<[subject |-> groups[i][1],
                     count |-> Len(groups[i][2]),
                     date_range |-> _get_date_range(groups[i][2])],
                    Len(groups[i][2])>>]
      sorted == SortByCount(<<>>, stats)
      thread_stats == [i \in 1..Len(sorted) |-> sorted[i][1]]
  IN  [total_threads |-> Len(SelectSeq(thread_stats, LAMBDA t : t.count > 1)),
       largest_thread |-> IF thread_stats # <<>> THEN Some(thread_stats[1]) ELSE None,
       avg_thread_size |-> IF thread_stats # <<>>
                           THEN Frac(SumSeq([i \in 1..Len(thread_stats) |-> thread_stats[i].count]),
                                     Len(thread_stats))
                           ELSE Frac(0, 1),
       top_threads |-> Prefix(thread_stats, TopThreadsLimit)]

(***************************************************************************)
(* Domain analysis.                                                        *)
(***************************************************************************)
RECURSIVE DomainCounter(_, _)
DomainCounter(c, es) ==
  IF es = <<>> THEN c
  ELSE LET email == Head(es)
           domain_match == SearchDomain(email.sender)
       IN  DomainCounter(IF email.sender # <<>> /\ ~domain_match.none
                         THEN CounterInc(c, domain_match.v)
                         ELSE c,
                         Tail(es))

\* a faulty variant of _analyze_domains: the diversity is taken over the
\* records that have a sender
_analyze_domains_senders(es) ==
  LET domain_counter == DomainCounter(<<>>, es)
      senders == SelectSeq(es, LAMBDA email : email.sender # <<>>)
  IN  [top_domains |-> most_common(domain_counter, 20),
       total_domains |-> Len(domain_counter),
       domain_diversity |-> IF senders # <<>> THEN Frac(Len(domain_counter), Len(senders))
                            ELSE Frac(0, 1)]

_analyze_domains(es) ==
  LET domain_counter == DomainCounter(<<>>, es)
  IN  [top_domains |-> most_common(domain_counter, 20),
       total_domains |-> Len(domain_counter),
       domain_diversity |-> IF es # <<>> THEN Frac(Len(domain_counter), Len(es)) ELSE Frac(0, 1)]

(***************************************************************************)
(* Python floats (IEEE 754 binary64, round to nearest, ties to even).      *)
(* A float other than 0 is a sign, a mantissa of 53 bits whose first bit   *)
(* is 1, and the exponent e of its last bit: the value is m * 2^e.         *)
(* Whole numbers of any length are sequences of bytes or of bits, most     *)
(* significant first.                                                      *)
(***************************************************************************)
Zeros(n) == [i \in 1..n |-> 0]

\* a natural number below 2^31 in 4 bytes
BytesOfNat(n) == <<n \div 16777216, (n \div 65536) % 256, (n \div 256) % 256, n % 256>>

BitsOfBytes(a) ==
  [i \in 1..(8 * Len(a)) |-> (a[((i - 1) \div 8) + 1] \div (2 ^ (7 - ((i - 1) % 8)))) % 2]

\* for a number of bits that is a multiple of 8
BytesOfBits(b) ==
  [k \in 1..(Len(b) \div 8) |->
     128 * b[8 * k - 7] + 64 * b[8 * k - 6] + 32 * b[8 * k - 5] + 16 * b[8 * k - 4]
     + 8 * b[8 * k - 3] + 4 * b[8 * k - 2] + 2 * b[8 * k - 1] + b[8 * k]]

\* a + b for two numbers of the same length, one byte longer
RECURSIVE AddBytes(_, _, _, _)
AddBytes(a, b, i, carry) ==
  IF i = 0 THEN <<carry>>
  ELSE LET s == a[i] + b[i] + carry
       IN  Append(AddBytes(a, b, i - 1, s \div 256), s % 256)

\* a - b for two numbers of the same length, a >= b
RECURSIVE SubBytes(_, _, _, _)
SubBytes(a, b, i, borrow) ==
  IF i = 0 THEN <<>>
  ELSE LET s == a[i] - b[i] - borrow
       IN  Append(SubBytes(a, b, i - 1, IF s < 0 THEN 1 ELSE 0), IF s < 0 THEN s + 256 ELSE s)

\* a < b for two numbers of the same length
LessDigits(a, b) == \E i \in 1..Len(a) : a[i] < b[i] /\ \A j \in 1..(i - 1) : a[j] = b[j]

\* quotient and remainder of a by d, 0 < d <= 2^23, from byte i on with
\* the remainder r of the bytes before
RECURSIVE DivBytes(_, _, _, _, _)
DivBytes(a, d, i, r, q) ==
  IF i > Len(a) THEN [q |-> q, r |-> r]
  ELSE LET x == r * 256 + a[i]
       IN  DivBytes(a, d, i + 1, x % d, Append(q, x \div d))

FloatZero == [neg |-> FALSE, m |-> <<>>, e |-> 0]

\* the float nearest to b * 2^e, or to a value strictly between b * 2^e and
\* (b + 1) * 2^e when inexact says so (b then has more than 53 bits)
RoundBits(neg, b, inexact, e) ==
  IF \A i \in 1..Len(b) : b[i] = 0 THEN FloatZero
  ELSE LET f == CHOOSE i \in 1..Len(b) : b[i] = 1 /\ \A j \in 1..(i - 1) : b[j] = 0
           len == Len(b) - f + 1
       IN  IF len <= 53
           THEN [neg |-> neg, m |-> SubSeq(b, f, Len(b)) \o Zeros(53 - len), e |-> e - (53 - len)]
           ELSE LET m == SubSeq(b, f, f + 52)
                    half == b[f + 53] = 1
                    more == inexact \/ \E i \in (f + 54)..Len(b) : b[i] = 1
                    up == half /\ (more \/ m[53] = 1)
                IN  IF ~up THEN [neg |-> neg, m |-> m, e |-> e + len - 53]
                    ELSE IF \A i \in 1..53 : m[i] = 1
                    THEN [neg |-> neg, m |-> <<1>> \o Zeros(52), e |-> e + len - 52]
                    ELSE LET z == CHOOSE i \in 1..53 : m[i] = 0 /\ \A j \in (i + 1)..53 : m[j] = 1
                         IN  [neg |-> neg,
                              m |-> SubSeq(m, 1, z - 1) \o <<1>> \o Zeros(53 - z),
                              e |-> e + len - 53]

\* n / d for two ints, |n| < 2^31 and 0 < d <= 2^23: the quotient correctly
\* rounded
IntDiv(n, d) ==
  LET qr == DivBytes(BytesOfNat(IF n < 0 THEN -n ELSE n) \o Zeros(10), d, 1, 0, <<>>)
  IN  RoundBits(n < 0, BitsOfBytes(qr.q), qr.r # 0, -80)

\* float(n)
FloatOfInt(n) == IntDiv(n, 1)

\* x / d for a float x and an int d, 0 < d <= 2^23
FloatDivInt(x, d) ==
  IF x.m = <<>> THEN FloatZero
  ELSE LET qr == DivBytes(BytesOfBits(Zeros(3) \o x.m) \o Zeros(10), d, 1, 0, <<>>)
       IN  RoundBits(x.neg, BitsOfBytes(qr.q), qr.r # 0, x.e - 80)

\* a * k for a number a and 0 <= k < 2^23, one to three bytes longer
RECURSIVE MulBytes(_, _, _, _)
MulBytes(a, k, i, carry) ==
  IF i = 0 THEN <<carry \div 65536, (carry \div 256) % 256, carry % 256>>
  ELSE LET s == a[i] * k + carry
       IN  Append(MulBytes(a, k, i - 1, s \div 256), s % 256)

\* x * k for a float x and an int k, 0 <= k < 2^23
FloatMulInt(x, k) ==
  IF x.m = <<>> \/ k = 0 THEN FloatZero
  ELSE RoundBits(x.neg, BitsOfBytes(MulBytes(BytesOfBits(Zeros(3) \o x.m), k, 7, 0)),
                 FALSE, x.e)

\* x + y
FloatAdd(x, y) ==
  IF x.m = <<>> THEN y
  ELSE IF y.m = <<>> THEN x
  ELSE LET e == IF x.e < y.e THEN x.e ELSE y.e
           bx == x.m \o Zeros(x.e - e)
           by == y.m \o Zeros(y.e - e)
           longest == IF Len(bx) > Len(by) THEN Len(bx) ELSE Len(by)
           n == 8 * ((longest + 7) \div 8)
           a == BytesOfBits(Zeros(n - Len(bx)) \o bx)
           b == BytesOfBits(Zeros(n - Len(by)) \o by)
       IN  IF x.neg = y.neg THEN RoundBits(x.neg, BitsOfBytes(AddBytes(a, b, Len(a), 0)), FALSE, e)
           ELSE IF LessDigits(a, b)
           THEN RoundBits(y.neg, BitsOfBytes(SubBytes(b, a, Len(a), 0)), FALSE, e)
           ELSE RoundBits(x.neg, BitsOfBytes(SubBytes(a, b, Len(a), 0)), FALSE, e)

\* x < y
FloatLess(x, y) ==
  LET Smaller(u, v) ==
        /\ v.m # <<>>
        /\ u.m = <<>> \/ u.e < v.e \/ (u.e = v.e /\ LessDigits(u.m, v.m))
  IN  IF x.neg # y.neg THEN x.neg
      ELSE IF x.neg THEN Smaller(y, x)
      ELSE Smaller(x, y)

\* sum(xs): the items are added one by one, from the left, to 0
RECURSIVE FloatSum(_, _)
FloatSum(total, xs) ==
  IF xs = <<>> THEN total ELSE FloatSum(FloatAdd(total, Head(xs)), Tail(xs))

\* min(xs), max(xs) for a non-empty list
FloatMin(xs) ==
  LET S == SeqToSet(xs) IN CHOOSE x \in S : \A y \in S : ~FloatLess(y, x)

FloatMax(xs) ==
  LET S == SeqToSet(xs) IN CHOOSE x \in S : \A y \in S : ~FloatLess(x, y)

(***************************************************************************)
(* Sentiment analysis.                                                     *)
(***************************************************************************)
positive_words ==
  {<<"g","o","o","d">>,
   <<"g","r","e","a","t">>,
   <<"e","x","c","e","l","l","e","n","t">>,
   <<"a","m","a","z","i","n","g">>,
   <<"w","o","n","d","e","r","f","u","l">>,
   <<"f","a","n","t","a","s","t","i","c">>,
   <<"a","w","e","s","o","m","e">>,
   <<"p","e","r","f","e","c","t">>,
   <<"l","o","v","e">>,
   <<"l","i","k","e">>,
   <<"h","a","p","p","y">>,
   <<"p","l","e","a","s","e","d">>,
   <<"s","a","t","i","s","f","i","e","d">>,
   <<"t","h","a","n","k">>,
   <<"t","h","a","n","k","s">>,
   <<"a","p","p","r","e","c","i","a","t","e">>}

negative_words ==
  {<<"b","a","d">>,
   <<"t","e","r","r","i","b","l","e">>,
   <<"a","w","f","u","l">>,
   <<"h","o","r","r","i","b","l","e">>,
   <<"d","i","s","a","p","p","o","i","n","t","e","d">>,
   <<"a","n","g","r","y">>,
   <<"f","r","u","s","t","r","a","t","e","d">>,
   <<"h","a","t","e">>,
   <<"d","i","s","l","i","k","e">>,
   <<"u","p","s","e","t">>,
   <<"s","a","d">>,
   <<"s","o","r","r","y">>,
   <<"a","p","o","l","o","g","i","z","e">>,
   <<"p","r","o","b","l","e","m">>,
   <<"i","s","s","u","e">>,
   <<"e","r","r","o","r">>}

\* a faulty variant of Sentiment: every occurrence of a vocabulary word counts
Sentiment_occurrences(email) ==
  LET words == Words(SubjectAndBody(email))
      positive_matches == Len(SelectSeq(words, LAMBDA w : w \in positive_words))
      negative_matches == Len(SelectSeq(words, LAMBDA w : w \in negative_words))
  IN  IF positive_matches > negative_matches THEN "positive"
      ELSE IF negative_matches > positive_matches THEN "negative"
      ELSE "neutral"

Sentiment(email) ==
  LET words == SeqToSet(Words(SubjectAndBody(email)))
      positive_matches == Cardinality(words \cap positive_words)
      negative_matches == Cardinality(words \cap negative_words)
  IN  IF positive_matches > negative_matches THEN "positive"
      ELSE IF negative_matches > positive_matches THEN "negative"
      ELSE "neutral"

\* a faulty variant of _analyze_sentiment: the percentages are whole numbers,
\* rounded down
_analyze_sentiment_whole(es) ==
  LET CountOf(class) == Cardinality({i \in 1..Len(es) : Sentiment(es[i]) = class})
      total == Len(es)
      Pct(n) == IF total > 0 THEN FloatOfInt((n * 100) \div total) ELSE FloatZero
  IN  [positive |-> CountOf("positive"),
       negative |-> CountOf("negative"),
       neutral |-> CountOf("neutral"),
       positive_percentage |-> Pct(CountOf("positive")),
       negative_percentage |-> Pct(CountOf("negative")),
       neutral_percentage |-> Pct(CountOf("neutral"))]

_analyze_sentiment(es) ==
  LET CountOf(class) == Cardinality({i \in 1..Len(es) : Sentiment(es[i]) = class})
      total == Len(es)
      Pct(n) == IF total > 0 THEN FloatMulInt(IntDiv(n, total), 100) ELSE FloatZero
  IN  [positive |-> CountOf("positive"),
       negative |-> CountOf("negative"),
       neutral |-> CountOf("neutral"),
       positive_percentage |-> Pct(CountOf("positive")),
       negative_percentage |-> Pct(CountOf("negative")),
       neutral_percentage |-> Pct(CountOf("neutral"))]

(***************************************************************************)
(* Keyword analysis.                                                       *)
(***************************************************************************)
stop_words ==
  {<<"t","h","e">>,
   <<"a">>,
   <<"a","n">>,
   <<"a","n","d">>,
   <<"o","r">>,
   <<"b","u","t">>,
   <<"i","n">>,
   <<"o","n">>,
   <<"a","t">>,
   <<"t","o">>,
   <<"f","o","r">>,
   <<"o","f">>,
   <<"w","i","t","h">>,
   <<"b","y">>,
   <<"i","s">>,
   <<"a","r","e">>,
   <<"w","a","s">>,
   <<"w","e","r","e">>,
   <<"b","e">>,
   <<"b","e","e","n">>,
   <<"h","a","v","e">>,
   <<"h","a","s">>,
   <<"h","a","d">>,
   <<"d","o">>,
   <<"d","o","e","s">>,
   <<"d","i","d">>,
   <<"w","i","l","l">>,
   <<"w","o","u","l","d">>,
   <<"c","o","u","l","d">>,
   <<"s","h","o","u","l","d">>,
   <<"m","a","y">>,
   <<"m","i","g","h","t">>,
   <<"c","a","n">>,
   <<"t","h","i","s">>,
   <<"t","h","a","t">>,
   <<"t","h","e","s","e">>,
   <<"t","h","o","s","e">>,
   <<"i">>,
   <<"y","o","u">>,
   <<"h","e">>,
   <<"s","h","e">>,
   <<"i","t">>,
   <<"w","e">>,
   <<"t","h","e","y">>,
   <<"m","e">>,
   <<"h","i","m">>,
   <<"h","e","r">>,
   <<"u","s">>,
   <<"t","h","e","m">>,
   <<"m","y">>,
   <<"y","o","u","r">>,
   <<"h","i","s">>,
   <<"i","t","s">>,
   <<"o","u","r">>,
   <<"t","h","e","i","r">>}

_analyze_keywords(es) ==
  LET filtered(email) ==
        SelectSeq(AlphaWords(SubjectAndBody(email)), LAMBDA word : word \notin stop_words)
      word_counter == CounterUpdate(<<>>, ConcatAll([i \in 1..Len(es) |-> filtered(es[i])]))
  IN  [top_keywords |-> most_common(word_counter, 50),
       total_unique_words |-> Len(word_counter),
       most_common_word |-> IF word_counter # <<>>
                            THEN Some(most_common(word_counter, 1)[1])
                            ELSE None]

(***************************************************************************)
(* Response-time analysis.                                                 *)
(***************************************************************************)
\* a faulty variant of InsertByDate: the members are put in descending order
InsertByDate_descending(sorted, x) ==
  LET before == {i \in 1..Len(sorted) : sorted[i].date.v >= x.date.v}
      n == IF before = {} THEN 0 ELSE SetMax(before)
  IN  SubSeq(sorted, 1, n) \o <<x>> \o SubSeq(sorted, n + 1, Len(sorted))

\* sorted(thread_emails, key=lambda x: x.date) is stable: a member goes after
\* every member already placed whose timestamp is at most its own
InsertByDate(sorted, x) ==
  LET before == {i \in 1..Len(sorted) : sorted[i].date.v <= x.date.v}
      n == IF before = {} THEN 0 ELSE SetMax(before)
  IN  SubSeq(sorted, 1, n) \o <<x>> \o SubSeq(sorted, n + 1, Len(sorted))

RECURSIVE SortByDate(_, _)
SortByDate(acc, members) ==
  IF members = <<>> THEN acc ELSE SortByDate(InsertByDate(acc, Head(members)), Tail(members))

\* sorting two or more members compares every timestamp with another one,
\* and comparing None with a timestamp or with None raises TypeError
SortRaises(thread_emails) ==
  Len(thread_emails) > 1 /\ \E i \in 1..Len(thread_emails) : thread_emails[i].date.none

\* whether _analyze_response_times raises on es
ResponseTimesRaise(es) ==
  LET groups == ThreadGroups(<<>>, es)
  IN  \E i \in 1..Len(groups) : SortRaises(groups[i][2])

\* time_diff.total_seconds() / 3600 for the consecutive timestamps of one
\* thread, a minute being 60 seconds
ThreadDeltas(thread_emails) ==
  LET sorted_emails == SortByDate(<<>>, thread_emails)
  IN  [i \in 1..(Len(sorted_emails) - 1) |->
         IntDiv((sorted_emails[i + 1].date.v - sorted_emails[i].date.v) * 60, 3600)]

\* the value _analyze_response_times returns when it does not raise; the
\* times are floats, and the 0 of a list without times is equal to 0.0
_analyze_response_times(es) ==
  LET groups == SelectSeq(ThreadGroups(<<>>, es), LAMBDA g : Len(g[2]) > 1)
      response_times == ConcatAll([i \in 1..Len(groups) |-> ThreadDeltas(groups[i][2])])
  IN  IF response_times # <<>>
      THEN [avg_response_time_hours |->
              FloatDivInt(FloatSum(FloatZero, response_times), Len(response_times)),
            min_response_time_hours |-> FloatMin(response_times),
            max_response_time_hours |-> FloatMax(response_times),
            response_time_samples |-> Len(response_times)]
      ELSE [avg_response_time_hours |-> FloatZero,
            min_response_time_hours |-> FloatZero,
            max_response_time_hours |-> FloatZero,
            response_time_samples |-> 0]

(***************************************************************************)
(* analyze_emails.                                                         *)
(***************************************************************************)
\* {} is the empty mapping <<>>, [] the empty list <<>>
_empty_results ==
  [total_emails |-> 0,
   date_range |-> "No emails",
   total_size_mb |-> Frac(0, 1),
   top_senders |-> <<>>,
   activity_by_time |-> <<>>,
   activity_by_day |-> <<>>,
   activity_by_hour |-> <<>>,
   subject_analysis |-> <<>>,
   attachment_analysis |-> <<>>,
   email_size_distribution |-> <<>>,
   thread_analysis |-> <<>>,
   domain_analysis |-> <<>>,
   sentiment_analysis |-> <<>>,
   keyword_analysis |-> <<>>,
   response_time_analysis |-> <<>>]

\* the bundle of a non-empty input on which no sub-statistic raises
Bundle(es) ==
  [total_emails |-> Len(es),
   date_range |-> _get_date_range(es),
   total_size_mb |-> _calculate_total_size(es),
   top_senders |-> _analyze_senders(es),
   activity_by_time |-> _analyze_time_activity(es),
   activity_by_day |-> _analyze_daily_activity(es),
   activity_by_hour |-> _analyze_hourly_activity(es),
   subject_analysis |-> _analyze_subjects(es),
   attachment_analysis |-> _analyze_attachments(es),
   email_size_distribution |-> _analyze_size_distribution(es),
   thread_analysis |-> _analyze_threads(es),
   domain_analysis |-> _analyze_domains(es),
   sentiment_analysis |-> _analyze_sentiment(es),
   keyword_analysis |-> _analyze_keywords(es),
   response_time_analysis |-> _analyze_response_times(es)]

\* analyze_emails has no exception handler: an error raised while the
\* dictionary of results is built leaves the call with no bundle at all
analyze_emails(es) ==
  IF es = <<>> THEN [raised |-> FALSE, value |-> _empty_results]
  ELSE IF ResponseTimesRaise(es) THEN [raised |-> TRUE, value |-> <<>>]
  ELSE [raised |-> FALSE, value |-> Bundle(es)]

(***************************************************************************)
(* The state machine: a caller builds an input sequence, record by record, *)
(* and calls analyze_emails on it once.                                    *)
(***************************************************************************)
Email(subject, sender, date, body, attachments, size) ==
  [subject |-> subject, sender |-> sender, date |-> date, body |-> body,
   attachments |-> attachments, size |-> size]

\* no coroutine of run_analysis_task is running
NoTask == [id |-> 0, pc |-> "none"]

\* no request was answered yet
NoResponse == [route |-> "none"]

\* no method of the configuration manager was called yet
NoCall == [op |-> "none"]

\* the web interface has not served a request: analysis_jobs = {}
JobsIdle ==
  /\ analysis_jobs = <<>>
  /\ background_tasks = {}
  /\ task = NoTask
  /\ issued = {}
  /\ clock = 0
  /\ response = NoResponse

\* no configuration manager was constructed
ConfigIdle ==
  /\ email_providers = <<>>
  /\ config_data = [dict |-> <<>>]
  /\ config_file = None
  /\ app_settings = None
  /\ last_call = NoCall

\* EmailManager(config): no connection was made
ManagerIdle ==
  /\ _connected = FALSE
  /\ connection = None
  /\ connects = 0
  /\ manager_call = [op |-> "none"]

\* no analyzer was called
AnalyzerIdle ==
  /\ emails = <<>>
  /\ pc = "idle"
  /\ outcome = "none"
  /\ results = <<>>

Start(inputs) ==
  /\ emails \in inputs
  /\ pc = "idle"
  /\ outcome = "none"
  /\ results = <<>>
  /\ JobsIdle
  /\ ConfigIdle
  /\ ManagerIdle

AddEmail(r, limit) ==
  /\ pc = "idle"
  /\ Len(emails) < limit
  /\ emails' = Append(emails, r)
  /\ UNCHANGED <<pc, outcome, results>>
  /\ UNCHANGED <<jobVars, configVars, managerVars>>

Analyze ==
  /\ pc = "idle"
  /\ LET r == analyze_emails(emails)
     IN  /\ outcome' = IF r.raised THEN "raised" ELSE "returned"
         /\ results' = r.value
  /\ pc' = "done"
  /\ UNCHANGED emails
  /\ UNCHANGED <<jobVars, configVars, managerVars>>

\* a faulty variant of AnalyzeAgain: the analyzer keeps the records of the
\* first call and counts them again with those of the second
AnalyzeAgain_stateful ==
  /\ pc = "done"
  /\ LET r == analyze_emails(emails \o emails)
     IN  /\ outcome' = IF r.raised THEN "raised" ELSE "returned"
         /\ results' = r.value
  /\ pc' = "again"
  /\ UNCHANGED emails
  /\ UNCHANGED <<jobVars, configVars, managerVars>>

\* a second call of analyze_emails, by the same analyzer on the same list
AnalyzeAgain ==
  /\ pc = "done"
  /\ LET r == analyze_emails(emails)
     IN  /\ outcome' = IF r.raised THEN "raised" ELSE "returned"
         /\ results' = r.value
  /\ pc' = "again"
  /\ UNCHANGED emails
  /\ UNCHANGED <<jobVars, configVars, managerVars>>

\* the list with the records at i and j exchanged
Swapped(es, i, j) ==
  [k \in 1..Len(es) |-> IF k = i THEN es[j] ELSE IF k = j THEN es[i] ELSE es[k]]

\* a call of analyze_emails on the list of the call before, two of its
\* records exchanged
Permute(i, j) ==
  /\ pc \in {"done", "permuted"}
  /\ i < j
  /\ j <= Len(emails)
  /\ emails' = Swapped(emails, i, j)
  /\ LET r == analyze_emails(emails')
     IN  /\ outcome' = IF r.raised THEN "raised" ELSE "returned"
         /\ results' = r.value
  /\ pc' = "permuted"
  /\ UNCHANGED <<jobVars, configVars, managerVars>>

(***************************************************************************)
(* Inputs.                                                                 *)
(***************************************************************************)
TxtHello == <<"H","e","l","l","o">>

TxtReHello == <<"R","e",":"," ","H","e","l","l","o">>

TxtAddrA == <<"a","@","x",".","c","o","m">>

TxtThanks == <<"t","h","a","n","k","s",","," ","g","o","o","d">>

\* 2024-01-01 09:00, 2024-01-01 15:00, 2024-01-02 09:00
Jan1Morning == 9 * 60

Jan1Afternoon == 15 * 60

Jan2Morning == 1440 + 9 * 60

\* records that differ in subject and timestamp, each present or missing;
\* the small ones have a sender and a body, the large ones have neither
GeneralPool ==
  {Email(s, IF z < 1024 THEN TxtAddrA ELSE <<>>, d, IF z < 1024 THEN TxtThanks ELSE <<>>, <<>>, z) :
     s \in {None, Some(TxtHello), Some(TxtReHello)},
     d \in {None, Some(Jan1Morning), Some(Jan1Afternoon), Some(Jan2Morning)},
     z \in {500, 2000000}}

MaxEmails == 2

Init == Start({<<>>})

Next ==
  \/ \E r \in GeneralPool : AddEmail(r, MaxEmails)
  \/ Analyze

Spec == Init /\ [][Next]_vars

(***************************************************************************)
(* Inputs that differ in the sender only. The input starts empty or with   *)
(* SenderBaseLen records of pairwise different addresses, so that more     *)
(* than TopSendersLimit keys can be counted.                               *)
(***************************************************************************)
Plain(sender, date, size, attachments) == Email(None, sender, date, <<>>, attachments, size)

\* u01@x.co, u02@x.co, ...
NumberedAddress(n) ==
  <<"u", DigitStr[(n \div 10) + 1], DigitStr[(n % 10) + 1], "@", "x", ".", "c", "o">>

SenderBaseLen == 19

SenderBase == [i \in 1..SenderBaseLen |-> Plain(NumberedAddress(i), None, 0, <<>>)]

TxtBob21 == <<"B","o","b"," ","<","u","2","1","@","x",".","c","o",">">>

TxtNobody == <<"n","o","b","o","d","y">>

TxtNoTld == <<"b","@","y">>

SenderPool ==
  {Plain(snd, None, 0, <<>>) :
     snd \in {NumberedAddress(1), NumberedAddress(21), TxtBob21, TxtNobody, TxtNoTld, <<>>}}

MaxExtraSenders == 3

InitSenders == Start({<<>>, SenderBase})

NextSenders ==
  \/ \E r \in SenderPool :
       AddEmail(r, IF Len(emails) >= SenderBaseLen
                   THEN SenderBaseLen + MaxExtraSenders
                   ELSE MaxExtraSenders)
  \/ Analyze

SpecSenders == InitSenders /\ [][NextSenders]_vars

(***************************************************************************)
(* Inputs that differ in the timestamp only: every hour of the day, the    *)
(* last minute before each band boundary, and the missing timestamp.       *)
(***************************************************************************)
TimePool ==
  {Plain(<<>>, d, 0, <<>>) :
     d \in {None} \cup {Some(h * 60) : h \in 0..23}
             \cup {Some(1440 + h * 60 + 59) : h \in {5, 11, 16, 21}}}

MaxTimed == 2

InitTime == Start({<<>>})

NextTime ==
  \/ \E r \in TimePool : AddEmail(r, MaxTimed)
  \/ Analyze

SpecTime == InitTime /\ [][NextTime]_vars

(***************************************************************************)
(* Inputs that differ in the size only: the band boundaries and their      *)
(* neighbours.                                                             *)
(***************************************************************************)
SizePool ==
  {Plain(<<>>, None, z, <<>>) :
     z \in {0, 1023, 1024, 10239, 10240, 102399, 102400, 500000}}

MaxSized == 3

InitSize == Start({<<>>})

NextSize ==
  \/ \E r \in SizePool : AddEmail(r, MaxSized)
  \/ Analyze

SpecSize == InitSize /\ [][NextSize]_vars

(***************************************************************************)
(* Inputs that differ in the subject only.                                 *)
(***************************************************************************)
TxtReBudget == <<"R","e",":"," ","B","u","d","g","e","t"," ","Q","1">>

TxtREbudget == <<"R","E",":"," ","b","u","d","g","e","t"," ","q","1">>

TxtBudget == <<"B","u","d","g","e","t"," ","Q","1">>

TxtFwdBudget == <<"F","w","d",":","B","u","d","g","e","t"," ","Q","1">>

TxtFwBudget == <<"f","w",":"," ","\t","b","u","d","g","e","t"," ","Q","1">>

TxtReReBudget == <<"R","e",":"," ","R","e",":"," ","B","u","d","g","e","t"," ","Q","1">>

TxtRegards == <<"R","e","g","a","r","d","s",":"," ","B","u","d","g","e","t"," ","Q","1">>

TxtOther == <<"O","t","h","e","r">>

SubjectPool ==
  {Email(s, <<>>, Some(Jan1Morning), <<>>, <<>>, 0) :
     s \in {None, Some(<<>>), Some(TxtReBudget), Some(TxtREbudget), Some(TxtBudget),
            Some(TxtFwdBudget), Some(TxtFwBudget), Some(TxtReReBudget), Some(TxtRegards),
            Some(TxtOther)}}

MaxSubjects == 3

InitThreads == Start({<<>>})

NextThreads ==
  \/ \E r \in SubjectPool : AddEmail(r, MaxSubjects)
  \/ Analyze

SpecThreads == InitThreads /\ [][NextThreads]_vars


(***************************************************************************)
(* Inputs of many threads. The input starts empty or with ThreadBaseCount  *)
(* threads of two records each, so that more than TopThreadsLimit threads  *)
(* can be reported.                                                        *)
(***************************************************************************)
\* t01, t02, ...
Topic(n) == <<"t", DigitStr[(n \div 10) + 1], DigitStr[(n % 10) + 1]>>

ThreadBaseCount == 11

\* "t01", "Re: t01", "t02", "Re: t02", ...
ThreadBase ==
  [i \in 1..(2 * ThreadBaseCount) |->
     Email(Some(IF i % 2 = 1 THEN Topic((i + 1) \div 2)
                ELSE <<"R","e",":"," ">> \o Topic(i \div 2)),
           <<>>, Some(Jan1Morning), <<>>, <<>>, 0)]

ManyThreadsPool ==
  {Email(s, <<>>, Some(Jan1Morning), <<>>, <<>>, 0) :
     s \in {None, Some(Topic(1)), Some(<<"F","W",":">> \o Topic(2)), Some(TxtOther)}}

MaxExtraThreads == 3

InitManyThreads == Start({<<>>, ThreadBase})

NextManyThreads ==
  \/ \E r \in ManyThreadsPool :
       AddEmail(r, IF Len(emails) >= 2 * ThreadBaseCount
                   THEN 2 * ThreadBaseCount + MaxExtraThreads
                   ELSE MaxExtraThreads)
  \/ Analyze

SpecManyThreads == InitManyThreads /\ [][NextManyThreads]_vars

(***************************************************************************)
(* Inputs that differ in the attachments only. One record carries          *)
(* AttachmentTypesLimit filenames of pairwise different extensions.        *)
(***************************************************************************)
TxtReportPdf == <<"r","e","p","o","r","t",".","v","2",".","P","D","F">>

TxtNoext == <<"n","o","e","x","t">>

TxtNotesPdf == <<"n","o","t","e","s",".","p","d","f">>

TxtTrailing == <<"t","r","a","i","l","i","n","g",".">>

TxtArchive == <<"o","l","d",".","t","a","r",".","G","Z">>

\* f.e0, f.e1, ...
NumberedFile(n) == <<"f", ".", "e", DigitStr[n + 1]>>

ManyTypes == [i \in 1..AttachmentTypesLimit |-> NumberedFile(i - 1)]

AttachmentPool ==
  {Plain(<<>>, None, 0, a) :
     a \in {<<>>, <<TxtReportPdf>>, <<TxtNoext>>, <<TxtNotesPdf, TxtArchive>>,
            <<TxtTrailing, TxtNoext>>, ManyTypes}}

MaxAttached == 3

InitAttachments == Start({<<>>})

NextAttachments ==
  \/ \E r \in AttachmentPool : AddEmail(r, MaxAttached)
  \/ Analyze

SpecAttachments == InitAttachments /\ [][NextAttachments]_vars

(***************************************************************************)
(* Inputs that differ in the text only: vocabulary words once, repeated,   *)
(* in the subject, in upper case, or inside a longer word.                 *)
(***************************************************************************)
Texted(subject, body) == Email(subject, <<>>, Some(Jan1Morning), body, <<>>, 0)

TxtGood == <<"g","o","o","d">>

TxtBad == <<"b","a","d">>

TxtGoodGoodBad == <<"g","o","o","d"," ","g","o","o","d"," ","b","a","d">>

TxtGoodGreatBadBad ==
  <<"g","o","o","d"," ","g","r","e","a","t"," ","b","a","d"," ","b","a","d">>

TxtGoodCap == <<"G","o","o","d">>

TxtBadShout == <<"B","A","D",".">>

TxtGoodness == <<"g","o","o","d","n","e","s","s">>

SentimentPool ==
  {Texted(None, <<>>), Texted(None, TxtGood), Texted(None, TxtBad),
   Texted(None, TxtGoodGoodBad), Texted(None, TxtGoodGreatBadBad),
   Texted(Some(TxtGoodCap), TxtBadShout), Texted(Some(TxtGoodness), TxtBad)}

MaxSentiment == 3

InitSentiment == Start({<<>>})

NextSentiment ==
  \/ \E r \in SentimentPool : AddEmail(r, MaxSentiment)
  \/ Analyze

SpecSentiment == InitSentiment /\ [][NextSentiment]_vars

(***************************************************************************)
(* Inputs whose texts hold stop words, short tokens, tokens with digits or *)
(* underscores, repeated tokens, and three times KeywordChunk different   *)
(* tokens, so that more than 50 keys can be counted.                       *)
(***************************************************************************)
TxtTheCat == <<"T","h","e"," ","c","a","t">>

TxtCatSat ==
  <<"t","h","e"," ","c","a","t"," ","s","a","t"," ","o","n"," ","a"," ","m","a","t">>

TxtOddTokens ==
  <<"d","o","g"," ","x","1","y","z"," ","a","b"," ","a","b","c","_","d"," ",
    "i","t","'","s"," ","d","o","g">>

TxtOnA == <<"o","n"," ","a"," ","u","p">>

TxtDogMat == <<"d","o","g"," ","m","a","t"," ","d","o","g"," ","d","o","g">>

KeywordChunk == 17

\* kaa, kab, ..., kaz, kba, ...
NumberedWord(n) == <<"k", LowerSeq[(n \div 26) + 1], LowerSeq[(n % 26) + 1]>>

\* the words numbered from first up to last, each after a space
RECURSIVE ManyWordsFrom(_, _)
ManyWordsFrom(first, last) ==
  IF first > last THEN <<>>
  ELSE <<" ">> \o NumberedWord(first) \o ManyWordsFrom(first + 1, last)

\* three texts of KeywordChunk words each, all different
ManyWords(part) == ManyWordsFrom(part * KeywordChunk, (part + 1) * KeywordChunk - 1)

KeywordPool ==
  {Texted(None, <<>>), Texted(Some(TxtTheCat), TxtCatSat),
   Texted(Some(<<>>), TxtOddTokens), Texted(Some(<<>>), TxtOnA),
   Texted(Some(<<>>), TxtDogMat)}
  \cup {Texted(Some(<<>>), ManyWords(part)) : part \in 0..2}

MaxKeyworded == 3

InitKeywords == Start({<<>>})

NextKeywords ==
  \/ \E r \in KeywordPool : AddEmail(r, MaxKeyworded)
  \/ Analyze

SpecKeywords == InitKeywords /\ [][NextKeywords]_vars

(***************************************************************************)
(* Inputs that differ in the thread and in the timestamp. The input starts *)
(* empty or with a thread of two records given latest first, so that two   *)
(* threads of two members can be met.                                      *)
(***************************************************************************)
Threaded(subject, date) == Email(subject, <<>>, date, <<>>, <<>>, 0)

ResponseBase ==
  <<Threaded(Some(TxtOther), Some(Jan1Afternoon)), Threaded(Some(TxtOther), Some(Jan1Morning))>>

ResponsePool ==
  {Threaded(Some(s), Some(d)) :
     s \in {TxtHello, TxtReHello}, d \in {Jan1Morning, Jan1Afternoon, Jan2Morning}}
  \cup {Threaded(None, Some(Jan1Morning)), Threaded(Some(TxtHello), None)}

MaxReplies == 3

InitResponse == Start({<<>>, ResponseBase})

NextResponse ==
  \/ \E r \in ResponsePool :
       AddEmail(r, IF Len(emails) >= 2 /\ SubSeq(emails, 1, 2) = ResponseBase
                   THEN 2 + MaxReplies
                   ELSE MaxReplies)
  \/ Analyze

SpecResponse == InitResponse /\ [][NextResponse]_vars

(***************************************************************************)
(* Inputs that differ in the sender only: addresses of several domains,    *)
(* bare and inside a display form, two addresses in one sender, a sender   *)
(* without "@", one without a top-level part, and the empty sender.        *)
(***************************************************************************)
TxtAddrB == <<"b","@","x",".","c","o","m">>

TxtCarol == <<"C","a","r","o","l"," ","<","c","@","y",".","o","r","g",">">>

TxtAddrUpper == <<"d","@","X",".","c","o","m">>

TxtAddrDeep == <<"e","@","m",".","x",".","c","o",".","u","k">>

TxtTwoAddrs == <<"f","@","z",".","i","o",","," ","a","@","x",".","c","o","m">>

DomainPool ==
  {Plain(snd, None, 0, <<>>) :
     snd \in {TxtAddrA, TxtAddrB, TxtCarol, TxtAddrUpper, TxtAddrDeep, TxtTwoAddrs,
              TxtNobody, TxtNoTld, <<>>}}

MaxDomained == 3

InitDomains == Start({<<>>})

NextDomains ==
  \/ \E r \in DomainPool : AddEmail(r, MaxDomained)
  \/ Analyze

SpecDomains == InitDomains /\ [][NextDomains]_vars

(***************************************************************************)
(* The general inputs, analysed twice.                                     *)
(***************************************************************************)
InitAgain == Start({<<>>})

NextAgain ==
  \/ \E r \in GeneralPool : AddEmail(r, MaxEmails)
  \/ Analyze
  \/ AnalyzeAgain

SpecAgain == InitAgain /\ [][NextAgain]_vars

(***************************************************************************)
(* Inputs in any order: the arrangements of some of five records, two of   *)
(* one thread and three of another, a few minutes apart, then exchanges of *)
(* two records.                                                            *)
(***************************************************************************)
TxtAlpha == <<"a","l","p","h","a">>

TxtBeta == <<"b","e","t","a">>

PermutePool ==
  {Email(Some(TxtAlpha), TxtAddrA, Some(0), <<>>, <<>>, 0),
   Email(Some(TxtAlpha), TxtAddrA, Some(6), <<>>, <<>>, 0),
   Email(Some(TxtBeta), TxtAddrA, Some(0), <<>>, <<>>, 0),
   Email(Some(TxtBeta), TxtAddrA, Some(12), <<>>, <<>>, 0),
   Email(Some(TxtBeta), TxtAddrA, Some(30), <<>>, <<>>, 0)}

InitPermute == Start({<<>>})

NextPermute ==
  \/ \E r \in PermutePool : r \notin SeqToSet(emails) /\ AddEmail(r, Cardinality(PermutePool))
  \/ Analyze
  \/ \E i, j \in 1..Cardinality(PermutePool) : Permute(i, j)

SpecPermute == InitPermute /\ [][NextPermute]_vars

(***************************************************************************)
(* The registry of analysis jobs (src/src/api/routes/analysis.py).         *)
(* analysis_jobs is the dict of the module, in insertion order.  A route   *)
(* handler and the coroutine run_analysis_task contain no await, so each   *)
(* of them runs alone in the event loop: no request is served while a      *)
(* task is between two of its steps.  A task scheduled by start_analysis   *)
(* starts at some moment after the response, other requests may be served  *)
(* before it.  A time is a number of clock units; two calls of utcnow may  *)
(* fall into the same unit.                                                *)
(***************************************************************************)
\* the ids of the registered users, distinct tokens
Users == {"u1", "u2"}

MaxJobs == 2

\* the values uuid4 can give, and the ids a request can name
JobIds == 1..MaxJobs

\* uuid4(): an id that was never issued.  The ids are interchangeable, the
\* model issues them in increasing order.
uuid4(used) == Cardinality(used) + 1

HasJob(jobs, analysis_id) == \E i \in 1..Len(jobs) : jobs[i].id = analysis_id

IndexOfJob(jobs, analysis_id) ==
  CHOOSE i \in 1..Len(jobs) : jobs[i].id = analysis_id

JobOf(jobs, analysis_id) == jobs[IndexOfJob(jobs, analysis_id)]

\* del analysis_jobs[analysis_id]
DelJob(jobs, analysis_id) == SelectSeq(jobs, LAMBDA j : j.id # analysis_id)

\* the event loop runs no task
Idle == task.pc \in {"none", "returned", "raised"}

Answer(route, user, analysis_id, code, body) ==
  [route |-> route, user |-> user, id |-> analysis_id, code |-> code, body |-> body]

\* AnalysisStatus(...) of a job
StatusView(job) ==
  [analysis_id |-> job.id, status |-> job.status, progress |-> job.progress,
   current_step |-> job.current_step, error |-> job.error,
   created_at |-> job.created_at, updated_at |-> job.updated_at]

\* a faulty variant of start_analysis: the job is registered as running
\* before its task has started
start_analysis_running(user) ==
  /\ Idle
  /\ \E analysis_id \in {uuid4(issued)} \cap JobIds, dt \in {0, 1} :
       /\ clock' = clock + dt
       /\ analysis_jobs' = Append(analysis_jobs,
            [id |-> analysis_id, status |-> "running", progress |-> 0,
             current_step |-> <<"Initializing analysis...">>, error |-> None,
             results |-> None, user_id |-> user,
             created_at |-> clock', updated_at |-> clock'])
       /\ background_tasks' = background_tasks \cup {analysis_id}
       /\ issued' = issued \cup {analysis_id}
       /\ response' = Answer("start_analysis", user, analysis_id, 200,
                           [analysis_id |-> analysis_id])
  /\ UNCHANGED task
  /\ UNCHANGED <<analyzerVars, configVars, managerVars>>

\* POST /start: a fresh id, a pending job, its task scheduled
start_analysis(user) ==
  /\ Idle
  /\ \E analysis_id \in {uuid4(issued)} \cap JobIds, dt \in {0, 1} :
       /\ clock' = clock + dt
       /\ analysis_jobs' = Append(analysis_jobs,
            [id |-> analysis_id, status |-> "pending", progress |-> 0,
             current_step |-> <<"Initializing analysis...">>, error |-> None,
             results |-> None, user_id |-> user,
             created_at |-> clock', updated_at |-> clock'])
       /\ background_tasks' = background_tasks \cup {analysis_id}
       /\ issued' = issued \cup {analysis_id}
       /\ response' = Answer("start_analysis", user, analysis_id, 200,
                           [analysis_id |-> analysis_id])
  /\ UNCHANGED task
  /\ UNCHANGED <<analyzerVars, configVars, managerVars>>

\* run_analysis_task, first statements of the try block; a job that was
\* deleted in the meantime makes the first assignment raise KeyError
TaskStart(analysis_id) ==
  /\ Idle
  /\ analysis_id \in background_tasks
  /\ background_tasks' = background_tasks \ {analysis_id}
  /\ IF HasJob(analysis_jobs, analysis_id)
     THEN /\ analysis_jobs' =
               [analysis_jobs EXCEPT ![IndexOfJob(analysis_jobs, analysis_id)] =
                  [@ EXCEPT !.status = "running",
                            !.current_step = <<"Fetching emails...">>,
                            !.progress = 10]]
          /\ task' = [id |-> analysis_id, pc |-> "analyzing"]
     ELSE /\ task' = [id |-> analysis_id, pc |-> "except"]
          /\ UNCHANGED analysis_jobs
  /\ UNCHANGED <<issued, clock, response>>
  /\ UNCHANGED <<analyzerVars, configVars, managerVars>>

\* run_analysis_task, the two progress updates
TaskProgress ==
  /\ task.pc = "analyzing"
  /\ analysis_jobs' =
       [analysis_jobs EXCEPT ![IndexOfJob(analysis_jobs, task.id)] =
          [@ EXCEPT !.current_step = <<"Generating visualizations...">>,
                    !.progress = 80]]
  /\ task' = [task EXCEPT !.pc = "storing"]
  /\ UNCHANGED <<background_tasks, issued, clock, response>>
  /\ UNCHANGED <<analyzerVars, configVars, managerVars>>

\* run_analysis_task, the end of the try block
TaskComplete ==
  /\ task.pc = "storing"
  /\ analysis_jobs' =
       [analysis_jobs EXCEPT ![IndexOfJob(analysis_jobs, task.id)] =
          [@ EXCEPT !.status = "completed",
                    !.progress = 100,
                    !.current_step = <<"Analysis completed">>,
                    !.updated_at = clock]]
  /\ task' = [task EXCEPT !.pc = "returned"]
  /\ UNCHANGED <<background_tasks, issued, clock, response>>
  /\ UNCHANGED <<analyzerVars, configVars, managerVars>>

\* run_analysis_task, the except block; on a deleted job its first
\* assignment raises KeyError again, which leaves the coroutine
TaskExcept ==
  /\ task.pc = "except"
  /\ IF HasJob(analysis_jobs, task.id)
     THEN /\ analysis_jobs' =
               [analysis_jobs EXCEPT ![IndexOfJob(analysis_jobs, task.id)] =
                  [@ EXCEPT !.status = "failed",
                            !.error = Some(<<"KeyError">>),
                            !.current_step = <<"Analysis failed">>,
                            !.updated_at = clock]]
          /\ task' = [task EXCEPT !.pc = "returned"]
     ELSE /\ task' = [task EXCEPT !.pc = "raised"]
          /\ UNCHANGED analysis_jobs
  /\ UNCHANGED <<background_tasks, issued, clock, response>>
  /\ UNCHANGED <<analyzerVars, configVars, managerVars>>

\* GET /status/{analysis_id}
get_analysis_status(user, analysis_id) ==
  /\ Idle
  /\ response' =
       IF ~HasJob(analysis_jobs, analysis_id)
       THEN Answer("get_analysis_status", user, analysis_id, 404, [detail |-> "Analysis not found"])
       ELSE IF JobOf(analysis_jobs, analysis_id).user_id # user
       THEN Answer("get_analysis_status", user, analysis_id, 403, [detail |-> "Access denied"])
       ELSE Answer("get_analysis_status", user, analysis_id, 200,
                   StatusView(JobOf(analysis_jobs, analysis_id)))
  /\ UNCHANGED <<analysis_jobs, background_tasks, task, issued, clock>>
  /\ UNCHANGED <<analyzerVars, configVars, managerVars>>

\* GET /results/{analysis_id}; results.get on the None of a job without
\* stored results raises AttributeError, answered as 500
get_analysis_results(user, analysis_id) ==
  /\ Idle
  /\ response' =
       IF ~HasJob(analysis_jobs, analysis_id)
       THEN Answer("get_analysis_results", user, analysis_id, 404, [detail |-> "Analysis not found"])
       ELSE IF JobOf(analysis_jobs, analysis_id).user_id # user
       THEN Answer("get_analysis_results", user, analysis_id, 403, [detail |-> "Access denied"])
       ELSE IF JobOf(analysis_jobs, analysis_id).status # "completed"
       THEN Answer("get_analysis_results", user, analysis_id, 400,
                   [detail |-> "Analysis not completed yet"])
       ELSE IF JobOf(analysis_jobs, analysis_id).results = None
       THEN Answer("get_analysis_results", user, analysis_id, 500,
                   [detail |-> "Internal Server Error"])
       ELSE Answer("get_analysis_results", user, analysis_id, 200,
                   [analysis_id |-> analysis_id,
                    results |-> JobOf(analysis_jobs, analysis_id).results])
  /\ UNCHANGED <<analysis_jobs, background_tasks, task, issued, clock>>
  /\ UNCHANGED <<analyzerVars, configVars, managerVars>>

\* max(jobs, key = created_at): the first job with the greatest created_at
LatestOf(jobs) ==
  jobs[CHOOSE i \in 1..Len(jobs) :
         /\ \A k \in 1..Len(jobs) : jobs[k].created_at <= jobs[i].created_at
         /\ \A k \in 1..(i - 1) : jobs[k].created_at < jobs[i].created_at]

\* the completed jobs of a user, in the order of the registry
CompletedOf(jobs, user) ==
  SelectSeq(jobs, LAMBDA j : j.user_id = user /\ j.status = "completed")

\* GET /last
get_last_analysis(user) ==
  /\ Idle
  /\ LET user_analyses == CompletedOf(analysis_jobs, user)
     IN  response' =
           IF user_analyses = <<>>
           THEN Answer("get_last_analysis", user, 0, 404, [detail |-> "No completed analyses found"])
           ELSE IF LatestOf(user_analyses).results = None
           THEN Answer("get_last_analysis", user, 0, 500, [detail |-> "Internal Server Error"])
           ELSE Answer("get_last_analysis", user, 0, 200,
                       [analysis_id |-> LatestOf(user_analyses).id,
                        results |-> LatestOf(user_analyses).results])
  /\ UNCHANGED <<analysis_jobs, background_tasks, task, issued, clock>>
  /\ UNCHANGED <<analyzerVars, configVars, managerVars>>

\* list.sort(key = created_at, reverse = True) by insertion: a stable sort,
\* jobs of one created_at keep their order
RECURSIVE SortByCreated(_, _)
SortByCreated(sorted, jobs) ==
  IF jobs = <<>> THEN sorted
  ELSE LET x == Head(jobs)
           before == SelectSeq(sorted, LAMBDA j : j.created_at >= x.created_at)
           after == SelectSeq(sorted, LAMBDA j : j.created_at < x.created_at)
       IN  SortByCreated(before \o <<x>> \o after, Tail(jobs))

\* xs[offset : offset + limit], for offset >= 0 and limit >= 0
Slice(xs, offset, limit) ==
  [i \in 1..(IF Len(xs) - offset < limit
             THEN (IF Len(xs) - offset < 0 THEN 0 ELSE Len(xs) - offset)
             ELSE limit) |-> xs[offset + i]]

\* a faulty variant of OwnedBy: the jobs of every user
OwnedBy_anyone(jobs, user) == jobs

\* the jobs of a user, in the order of the registry
OwnedBy(jobs, user) == SelectSeq(jobs, LAMBDA j : j.user_id = user)

\* GET /list
list_analyses(user, limit, offset) ==
  /\ Idle
  /\ LET user_analyses == SortByCreated(<<>>, OwnedBy(analysis_jobs, user))
         page == Slice(user_analyses, offset, limit)
     IN  response' = Answer("list_analyses", user, 0, 200,
                            [analyses |-> [i \in 1..Len(page) |-> StatusView(page[i])]])
  /\ UNCHANGED <<analysis_jobs, background_tasks, task, issued, clock>>
  /\ UNCHANGED <<analyzerVars, configVars, managerVars>>

\* DELETE /{analysis_id}
delete_analysis(user, analysis_id) ==
  /\ Idle
  /\ IF ~HasJob(analysis_jobs, analysis_id)
     THEN /\ response' = Answer("delete_analysis", user, analysis_id, 404,
                                [detail |-> "Analysis not found"])
          /\ UNCHANGED analysis_jobs
     ELSE IF JobOf(analysis_jobs, analysis_id).user_id # user
     THEN /\ response' = Answer("delete_analysis", user, analysis_id, 403,
                                [detail |-> "Access denied"])
          /\ UNCHANGED analysis_jobs
     ELSE /\ response' = Answer("delete_analysis", user, analysis_id, 200,
                                [message |-> "Analysis deleted successfully"])
          /\ analysis_jobs' = DelJob(analysis_jobs, analysis_id)
  /\ UNCHANGED <<background_tasks, task, issued, clock>>
  /\ UNCHANGED <<analyzerVars, configVars, managerVars>>

\* the page size and the offsets a request of /list gives
ListLimits == {10}

ListOffsets == {0, 1}

InitJobs == AnalyzerIdle /\ JobsIdle /\ ConfigIdle /\ ManagerIdle

NextJobs ==
  \/ \E user \in Users : start_analysis(user)
  \/ \E analysis_id \in JobIds : TaskStart(analysis_id)
  \/ TaskProgress
  \/ TaskComplete
  \/ TaskExcept
  \/ \E user \in Users, analysis_id \in JobIds : get_analysis_status(user, analysis_id)
  \/ \E user \in Users, analysis_id \in JobIds : get_analysis_results(user, analysis_id)
  \/ \E user \in Users : get_last_analysis(user)
  \/ \E user \in Users, limit \in ListLimits, offset \in ListOffsets :
       list_analyses(user, limit, offset)
  \/ \E user \in Users, analysis_id \in JobIds : delete_analysis(user, analysis_id)

SpecJobs == InitJobs /\ [][NextJobs]_vars

(***************************************************************************)
(* The configuration manager                                               *)
(* (src/src/core/config_manager.py, class ConfigManager).                  *)
(* A Python value of a configuration is a record of its type and its       *)
(* payload; email_providers maps an id to an EmailProviderConfig and       *)
(* app_settings is an AppSettings, both records tagged with their class;   *)
(* config_data is the dict that is written to the file; config_file is the *)
(* text of the file at config_path, None where no file exists.  The order  *)
(* of the keys of a dict is left out.                                      *)
(***************************************************************************)
PyStr(s) == [str |-> s]

PyInt(n) == [int |-> n]

PyBool(b) == [bool |-> b]

\* a float, as a quotient <<numerator, denominator>>
PyFloat(n, d) == [float |-> <<n, d>>]

PyNone == [NoneType |-> <<>>]

PyList(xs) == [list |-> xs]

PyDict(d) == [dict |-> d]

\* the type of a value and what it holds
TypeOf(value) == CHOOSE type \in DOMAIN value : TRUE

ValueOf(value) == value[TypeOf(value)]

\* isinstance(value, int): bool is a subclass of int
IsInt(value) == TypeOf(value) \in {"int", "bool"}

\* the number an int or a bool stands for in a comparison
IntOf(value) ==
  IF TypeOf(value) = "bool" THEN (IF ValueOf(value) THEN 1 ELSE 0) ELSE ValueOf(value)

\* the text json.dump writes for a value: an object, an array, a string, a
\* number or one of the literals true, false and null
RECURSIVE json_dump(_)
json_dump(data) ==
  IF TypeOf(data) = "dict"
  THEN [object |-> [k \in DOMAIN ValueOf(data) |-> json_dump(ValueOf(data)[k])]]
  ELSE IF TypeOf(data) = "list"
  THEN [array |-> [i \in 1..Len(ValueOf(data)) |-> json_dump(ValueOf(data)[i])]]
  ELSE IF TypeOf(data) = "str" THEN [string |-> ValueOf(data)]
  ELSE IF TypeOf(data) = "int" THEN [number |-> <<ValueOf(data)>>]
  ELSE IF TypeOf(data) = "float" THEN [number |-> ValueOf(data)]
  ELSE IF TypeOf(data) = "bool"
  THEN [literal |-> IF ValueOf(data) THEN "true" ELSE "false"]
  ELSE [literal |-> "null"]

\* a file whose writing failed after it was opened for writing, and a file
\* that holds something else than JSON
Truncated == [undecodable |-> "truncated"]

NotJson == [undecodable |-> "not json"]

\* json.load raises JSONDecodeError on the text
Undecodable(text) == TypeOf(text) = "undecodable"

\* json.load of a text that can be decoded
RECURSIVE json_load(_)
json_load(text) ==
  IF TypeOf(text) = "object"
  THEN PyDict([k \in DOMAIN ValueOf(text) |-> json_load(ValueOf(text)[k])])
  ELSE IF TypeOf(text) = "array"
  THEN PyList([i \in 1..Len(ValueOf(text)) |-> json_load(ValueOf(text)[i])])
  ELSE IF TypeOf(text) = "string" THEN PyStr(ValueOf(text))
  ELSE IF TypeOf(text) = "number"
  THEN (IF Len(ValueOf(text)) = 1 THEN PyInt(ValueOf(text)[1])
        ELSE PyFloat(ValueOf(text)[1], ValueOf(text)[2]))
  ELSE IF text = [literal |-> "true"] THEN PyBool(TRUE)
  ELSE IF text = [literal |-> "false"] THEN PyBool(FALSE)
  ELSE PyNone

\* the fields of the dataclass EmailProviderConfig
ProviderFields ==
  {"name", "imap_server", "imap_port", "smtp_server", "smtp_port", "use_ssl",
   "use_tls", "requires_oauth", "oauth_client_id", "oauth_client_secret"}

\* EmailProviderConfig(...): an instance of the dataclass
EmailProviderConfig(name, imap_server, imap_port, smtp_server, smtp_port, use_ssl, use_tls, requires_oauth, oauth_client_id, oauth_client_secret) ==
  [class |-> "EmailProviderConfig",
   name |-> name, imap_server |-> imap_server, imap_port |-> imap_port,
   smtp_server |-> smtp_server, smtp_port |-> smtp_port, use_ssl |-> use_ssl,
   use_tls |-> use_tls, requires_oauth |-> requires_oauth,
   oauth_client_id |-> oauth_client_id, oauth_client_secret |-> oauth_client_secret]

\* the defaults of the fields of EmailProviderConfig that have one
ProviderDefaults ==
  [use_ssl |-> PyBool(TRUE), use_tls |-> PyBool(TRUE),
   requires_oauth |-> PyBool(FALSE), oauth_client_id |-> PyNone,
   oauth_client_secret |-> PyNone]

\* the fields of the dataclass AppSettings
SettingsFields ==
  {"max_emails_per_analysis", "cache_duration_hours", "theme", "language",
   "auto_save_analysis", "enable_notifications", "log_level", "data_directory",
   "export_formats"}

\* AppSettings(...): an instance of the dataclass, after __post_init__
AppSettings(max_emails_per_analysis, cache_duration_hours, theme, language, auto_save_analysis, enable_notifications, log_level, data_directory, export_formats) ==
  [class |-> "AppSettings",
   max_emails_per_analysis |-> max_emails_per_analysis,
   cache_duration_hours |-> cache_duration_hours, theme |-> theme,
   language |-> language, auto_save_analysis |-> auto_save_analysis,
   enable_notifications |-> enable_notifications, log_level |-> log_level,
   data_directory |-> data_directory,
   export_formats |-> IF export_formats = PyNone
                      THEN PyList(<<PyStr("pdf"), PyStr("png"), PyStr("csv"), PyStr("json")>>)
                      ELSE export_formats]

\* the defaults of the fields of AppSettings
SettingsDefaults ==
  [max_emails_per_analysis |-> PyInt(10000), cache_duration_hours |-> PyInt(24),
   theme |-> PyStr("dark"), language |-> PyStr("en"),
   auto_save_analysis |-> PyBool(TRUE), enable_notifications |-> PyBool(TRUE),
   log_level |-> PyStr("INFO"), data_directory |-> PyStr("data"),
   export_formats |-> PyNone]

\* dataclasses.asdict(config): the dict of the fields of an instance
asdict(config) == PyDict([f \in DOMAIN config \ {"class"} |-> config[f]])

\* a dict with one more key, or a new value under a key
DictSet(d, key, value) ==
  [k \in DOMAIN d \cup {key} |-> IF k = key THEN value ELSE d[k]]

\* del d[key]
DictDel(d, key) == [k \in DOMAIN d \ {key} |-> d[k]]

\* d[key][provider_id] = value and del d[key][provider_id] on config_data
ItemSet(data, key, provider_id, value) ==
  PyDict([ValueOf(data) EXCEPT ![key] = PyDict(DictSet(ValueOf(@), provider_id, value))])

ItemDel(data, key, provider_id) ==
  PyDict([ValueOf(data) EXCEPT ![key] = PyDict(DictDel(ValueOf(@), provider_id))])

Raise(type, message) == Some([type |-> type, message |-> message])

ValueError(message) == Raise("ValueError", message)

TypeError(message) == Raise("TypeError", message)

AttributeError(message) == Raise("AttributeError", message)

\* EmailProviderConfig(**provider_data) for a dict whose keys are fields:
\* a field the dict does not give takes its default
FromDict(provider_data) ==
  [f \in ProviderFields \cup {"class"} |->
     IF f = "class" THEN "EmailProviderConfig"
     ELSE IF f \in DOMAIN ValueOf(provider_data) THEN ValueOf(provider_data)[f]
     ELSE ProviderDefaults[f]]

\* AppSettings(**settings_data) for a dict whose keys are fields
SettingsFromDict(settings_data) ==
  LET given == [f \in SettingsFields |->
                  IF f \in DOMAIN ValueOf(settings_data) THEN ValueOf(settings_data)[f]
                  ELSE SettingsDefaults[f]]
  IN  AppSettings(given.max_emails_per_analysis, given.cache_duration_hours,
                  given.theme, given.language, given.auto_save_analysis,
                  given.enable_notifications, given.log_level,
                  given.data_directory, given.export_formats)

\* the providers of _get_default_config
DefaultProviders ==
  [id \in {"gmail", "outlook", "yahoo"} |->
     IF id = "gmail"
     THEN asdict(EmailProviderConfig(PyStr("Gmail"), PyStr("imap.gmail.com"), PyInt(993),
                 PyStr("smtp.gmail.com"), PyInt(587), PyBool(TRUE), PyBool(TRUE),
                 PyBool(TRUE), PyStr(""), PyStr("")))
     ELSE IF id = "outlook"
     THEN asdict(EmailProviderConfig(PyStr("Outlook/Hotmail"),
                 PyStr("outlook.office365.com"), PyInt(993),
                 PyStr("smtp.office365.com"), PyInt(587), PyBool(TRUE), PyBool(TRUE),
                 PyBool(TRUE), PyStr(""), PyStr("")))
     ELSE asdict(EmailProviderConfig(PyStr("Yahoo Mail"), PyStr("imap.mail.yahoo.com"),
                 PyInt(993), PyStr("smtp.mail.yahoo.com"), PyInt(587), PyBool(TRUE),
                 PyBool(TRUE), PyBool(TRUE), PyStr(""), PyStr("")))]

\* the application settings of _get_default_config
DefaultAppSettings ==
  [max_emails_per_analysis |-> PyInt(10000), cache_duration_hours |-> PyInt(24),
   theme |-> PyStr("dark"), language |-> PyStr("en"),
   auto_save_analysis |-> PyBool(TRUE), enable_notifications |-> PyBool(TRUE),
   log_level |-> PyStr("INFO"), data_directory |-> PyStr("data"),
   export_formats |-> PyList(<<PyStr("pdf"), PyStr("png"), PyStr("csv"), PyStr("json")>>)]

_get_default_config ==
  PyDict([email_providers |-> PyDict(DefaultProviders),
          app_settings |-> PyDict(DefaultAppSettings)])

\* key in container, for a key that is a str: the keys of a dict, the items
\* of a list, the parts of a str (a str of a configuration is an atom here,
\* and a key is part of it only when it is the whole of it)
Contains(container, key) ==
  IF TypeOf(container) = "dict"
  THEN [raised |-> None, value |-> key \in DOMAIN ValueOf(container)]
  ELSE IF TypeOf(container) = "list"
  THEN [raised |-> None,
        value |-> \E i \in 1..Len(ValueOf(container)) : ValueOf(container)[i] = PyStr(key)]
  ELSE IF TypeOf(container) = "str"
  THEN [raised |-> None, value |-> ValueOf(container) = key]
  ELSE [raised |-> TypeError(<<"argument of type '", TypeOf(container), "' is not iterable">>),
        value |-> FALSE]

\* what container[key] raises for a key that is a str and is in the
\* container
SubscriptRaised(container) ==
  IF TypeOf(container) = "dict" THEN None
  ELSE TypeError(<<TypeOf(container), " indices must be integers">>)

RequiredFields == <<"name", "imap_server", "imap_port", "smtp_server", "smtp_port">>

\* not isinstance(port, int) or port <= 0
InvalidPort(port) == ~IsInt(port) \/ IntOf(port) <= 0

\* _validate_email_provider: what it raises, and the EmailProviderConfig
\* it registers when it raises nothing
_validate_email_provider(provider_id, provider_data) ==
  LET tests == [i \in 1..Len(RequiredFields) |->
                  Contains(provider_data, RequiredFields[i])]
      missing == {i \in 1..Len(RequiredFields) : ~tests[i].value}
      Failed(raised) == [raised |-> raised, config |-> None]
  IN  IF tests[1].raised # None THEN Failed(tests[1].raised)
      ELSE IF missing # {}
      THEN Failed(ValueError(<<"Missing required field '", RequiredFields[SetMin(missing)],
                               "' for provider '", provider_id, "'">>))
      ELSE IF SubscriptRaised(provider_data) # None
      THEN Failed(SubscriptRaised(provider_data))
      ELSE IF InvalidPort(ValueOf(provider_data).imap_port)
      THEN Failed(ValueError(<<"Invalid IMAP port for provider '", provider_id, "'">>))
      ELSE IF InvalidPort(ValueOf(provider_data).smtp_port)
      THEN Failed(ValueError(<<"Invalid SMTP port for provider '", provider_id, "'">>))
      ELSE IF ~(DOMAIN ValueOf(provider_data) \subseteq ProviderFields)
      THEN Failed(TypeError(<<"__init__() got an unexpected keyword argument">>))
      ELSE [raised |-> None, config |-> Some(FromDict(provider_data))]

ValidThemes == {PyStr("light"), PyStr("dark"), PyStr("auto")}

ValidLogLevels ==
  {PyStr("DEBUG"), PyStr("INFO"), PyStr("WARNING"), PyStr("ERROR"), PyStr("CRITICAL")}

\* _validate_app_settings: what it raises, and the AppSettings it builds
_validate_app_settings(settings_data) ==
  LET Failed(raised) == [raised |-> raised, settings |-> None]
  IN  IF TypeOf(settings_data) # "dict"
      THEN Failed(TypeError(<<"argument after ** must be a mapping, not ",
                              TypeOf(settings_data)>>))
      ELSE IF ~(DOMAIN ValueOf(settings_data) \subseteq SettingsFields)
      THEN Failed(TypeError(<<"__init__() got an unexpected keyword argument">>))
      ELSE LET settings == SettingsFromDict(settings_data)
           IN  IF settings.theme \notin ValidThemes
               THEN Failed(ValueError(<<"Invalid theme">>))
               ELSE IF settings.log_level \notin ValidLogLevels
               THEN Failed(ValueError(<<"Invalid log level">>))
               ELSE [raised |-> None, settings |-> Some(settings)]

\* _validate_config of the loaded data: what it raises, and the providers
\* and the settings of the manager when it raises nothing.  Where several
\* providers fail, the one that comes first in the file raises; the order
\* of the file is left out and one of them is taken
_validate_config(data) ==
  LET Failed(raised) ==
        [raised |-> raised, email_providers |-> <<>>, app_settings |-> None]
      has_providers == Contains(data, "email_providers")
  IN  IF has_providers.raised # None THEN Failed(has_providers.raised)
      ELSE IF ~has_providers.value
      THEN Failed(ValueError(<<"Missing email_providers section in configuration">>))
      ELSE IF SubscriptRaised(data) # None THEN Failed(SubscriptRaised(data))
      ELSE IF TypeOf(ValueOf(data).email_providers) # "dict"
      THEN Failed(AttributeError(<<"'", TypeOf(ValueOf(data).email_providers),
                                   "' object has no attribute 'items'">>))
      ELSE LET providers == ValueOf(ValueOf(data).email_providers)
               checked == [id \in DOMAIN providers |->
                             _validate_email_provider(id, providers[id])]
               failing == {id \in DOMAIN providers : checked[id].raised # None}
           IN  IF failing # {}
               THEN Failed(checked[CHOOSE id \in failing : TRUE].raised)
               ELSE IF "app_settings" \notin DOMAIN ValueOf(data)
               THEN Failed(ValueError(<<"Missing app_settings section in configuration">>))
               ELSE LET settings == _validate_app_settings(ValueOf(data).app_settings)
                    IN  IF settings.raised # None THEN Failed(settings.raised)
                        ELSE [raised |-> None,
                              email_providers |->
                                [id \in DOMAIN providers |-> checked[id].config.v],
                              app_settings |-> settings.settings]

\* the configurations a caller passes
SampleProvider ==
  EmailProviderConfig(PyStr("Test Provider"), PyStr("test.imap.com"), PyInt(993),
                      PyStr("test.smtp.com"), PyInt(587), PyBool(TRUE), PyBool(TRUE),
                      PyBool(FALSE), PyNone, PyNone)

PlainProvider ==
  EmailProviderConfig(PyStr("Plain"), PyStr("mail.example.org"), PyInt(143),
                      PyStr("mail.example.org"), PyInt(25), PyBool(FALSE),
                      PyBool(FALSE), PyBool(FALSE), PyNone, PyNone)

ProviderConfigs == {SampleProvider, PlainProvider}

\* the ids a caller names
ProviderIds == {"gmail", "custom", "test"}

\* what the file system does to _save_config
SaveOutcomes == {"written", "open failed", "write failed"}

\* the file after _save_config of data
SavedFile(data, io) ==
  IF io = "written" THEN Some(json_dump(data))
  ELSE IF io = "open failed" THEN config_file
  ELSE Some(Truncated)

\* what _save_config raises
SaveRaised(io) ==
  IF io = "written" THEN None ELSE ValueError(<<"Failed to save configuration file">>)

\* _load_config: what it raises, the data it loads and the file it leaves
_load_config(io) ==
  IF config_file # None
  THEN IF Undecodable(config_file.v)
       THEN [raised |-> ValueError(<<"Failed to load configuration file">>),
             config_data |-> PyDict(<<>>), config_file |-> config_file]
       ELSE [raised |-> None, config_data |-> json_load(config_file.v),
             config_file |-> config_file]
  ELSE [raised |-> SaveRaised(io), config_data |-> _get_default_config,
        config_file |-> SavedFile(_get_default_config, io)]

\* ConfigManager(config_path) on the file as it is: what the constructor
\* raises, and the fields of the instance when it raises nothing
Construct(io) ==
  LET loaded == _load_config(io)
      checked == IF loaded.raised # None
                 THEN [raised |-> loaded.raised, email_providers |-> <<>>,
                       app_settings |-> None]
                 ELSE _validate_config(loaded.config_data)
  IN  [raised |-> checked.raised, config_data |-> loaded.config_data,
       config_file |-> loaded.config_file,
       email_providers |-> checked.email_providers,
       app_settings |-> checked.app_settings]

\* email_providers.get(provider_id)
get_provider(providers, provider_id) ==
  IF provider_id \in DOMAIN providers THEN Some(providers[provider_id]) ELSE None

Call(op, provider_id, config, raised, value) ==
  [op |-> op, id |-> provider_id, config |-> config, raised |-> raised, value |-> value]

\* the constructor: where it raises, no instance comes to exist and the
\* fields stay those of no manager
ConfigManager(io) ==
  /\ last_call = NoCall
  /\ LET made == Construct(io)
     IN  /\ config_file' = made.config_file
         /\ last_call' = Call("ConfigManager", "", None, made.raised, None)
         /\ IF made.raised = None
            THEN /\ config_data' = made.config_data
                 /\ email_providers' = made.email_providers
                 /\ app_settings' = made.app_settings
            ELSE UNCHANGED <<config_data, email_providers, app_settings>>
  /\ UNCHANGED <<analyzerVars, jobVars, managerVars>>

get_email_provider(provider_id) ==
  /\ last_call' = Call("get_email_provider", provider_id, None, None,
                       get_provider(email_providers, provider_id))
  /\ UNCHANGED <<email_providers, config_data, config_file, app_settings>>
  /\ UNCHANGED <<analyzerVars, jobVars, managerVars>>

update_email_provider(provider_id, config, io) ==
  /\ email_providers' = DictSet(email_providers, provider_id, config)
  /\ config_data' = ItemSet(config_data, "email_providers", provider_id, asdict(config))
  /\ config_file' = SavedFile(config_data', io)
  /\ last_call' = Call("update_email_provider", provider_id, Some(config),
                       SaveRaised(io), None)
  /\ UNCHANGED app_settings
  /\ UNCHANGED <<analyzerVars, jobVars, managerVars>>

update_app_settings(settings, io) ==
  /\ app_settings' = Some(settings)
  /\ config_data' = PyDict([ValueOf(config_data) EXCEPT !["app_settings"] = asdict(settings)])
  /\ config_file' = SavedFile(config_data', io)
  /\ last_call' = Call("update_app_settings", "", Some(settings), SaveRaised(io), None)
  /\ UNCHANGED email_providers
  /\ UNCHANGED <<analyzerVars, jobVars, managerVars>>

\* a faulty variant of add_custom_provider: a registered id is overwritten
add_custom_provider_overwriting(provider_id, config, io) ==
  /\ email_providers' = DictSet(email_providers, provider_id, config)
  /\ config_data' = ItemSet(config_data, "email_providers", provider_id, asdict(config))
  /\ config_file' = SavedFile(config_data', io)
  /\ last_call' = Call("add_custom_provider", provider_id, Some(config),
                       SaveRaised(io), None)
  /\ UNCHANGED app_settings
  /\ UNCHANGED <<analyzerVars, jobVars, managerVars>>

add_custom_provider(provider_id, config, io) ==
  /\ IF provider_id \in DOMAIN email_providers
     THEN /\ last_call' = Call("add_custom_provider", provider_id, Some(config),
                               ValueError(<<"Provider '", provider_id, "' already exists">>),
                               None)
          /\ UNCHANGED <<email_providers, config_data, config_file>>
     ELSE /\ email_providers' = DictSet(email_providers, provider_id, config)
          /\ config_data' = ItemSet(config_data, "email_providers", provider_id,
                                    asdict(config))
          /\ config_file' = SavedFile(config_data', io)
          /\ last_call' = Call("add_custom_provider", provider_id, Some(config),
                               SaveRaised(io), None)
  /\ UNCHANGED app_settings
  /\ UNCHANGED <<analyzerVars, jobVars, managerVars>>

\* a faulty variant of remove_provider: an id that is not registered is
\* passed over in silence
remove_provider_silent(provider_id, io) ==
  /\ email_providers' = DictDel(email_providers, provider_id)
  /\ config_data' = ItemDel(config_data, "email_providers", provider_id)
  /\ config_file' = SavedFile(config_data', io)
  /\ last_call' = Call("remove_provider", provider_id, None, SaveRaised(io), None)
  /\ UNCHANGED app_settings
  /\ UNCHANGED <<analyzerVars, jobVars, managerVars>>

remove_provider(provider_id, io) ==
  /\ IF provider_id \notin DOMAIN email_providers
     THEN /\ last_call' = Call("remove_provider", provider_id, None,
                               ValueError(<<"Provider '", provider_id, "' does not exist">>),
                               None)
          /\ UNCHANGED <<email_providers, config_data, config_file>>
     ELSE /\ email_providers' = DictDel(email_providers, provider_id)
          /\ config_data' = ItemDel(config_data, "email_providers", provider_id)
          /\ config_file' = SavedFile(config_data', io)
          /\ last_call' = Call("remove_provider", provider_id, None, SaveRaised(io), None)
  /\ UNCHANGED app_settings
  /\ UNCHANGED <<analyzerVars, jobVars, managerVars>>

\* ConfigManager() where no file exists at config_path: the default
\* configuration is written and validated
InitConfig ==
  /\ AnalyzerIdle
  /\ JobsIdle
  /\ ManagerIdle
  /\ config_data = _get_default_config
  /\ config_file = Some(json_dump(_get_default_config))
  /\ email_providers = [id \in DOMAIN DefaultProviders |-> FromDict(DefaultProviders[id])]
  /\ app_settings = Some(SettingsFromDict(PyDict(DefaultAppSettings)))
  /\ last_call = NoCall

NextConfig ==
  \/ \E provider_id \in ProviderIds : get_email_provider(provider_id)
  \/ \E provider_id \in ProviderIds, config \in ProviderConfigs, io \in SaveOutcomes :
       update_email_provider(provider_id, config, io)
  \/ \E provider_id \in ProviderIds, config \in ProviderConfigs, io \in SaveOutcomes :
       add_custom_provider(provider_id, config, io)
  \/ \E provider_id \in ProviderIds, io \in SaveOutcomes :
       remove_provider(provider_id, io)

SpecConfig == InitConfig /\ [][NextConfig]_vars

(***************************************************************************)
(* The construction of a ConfigManager over the files that may lie at       *)
(* config_path.                                                            *)
(***************************************************************************)
\* a provider of a file with the ports given
ProviderData(imap_port, smtp_port) ==
  PyDict([name |-> PyStr("Test Provider"), imap_server |-> PyStr("test.imap.com"),
          imap_port |-> imap_port, smtp_server |-> PyStr("test.smtp.com"),
          smtp_port |-> smtp_port])

GoodProviderData == ProviderData(PyInt(993), PyInt(587))

PortValues ==
  {PyInt(993), PyInt(0), PyInt(0 - 1), PyBool(TRUE), PyBool(FALSE), PyStr("993"),
   PyFloat(3, 2), PyNone}

\* what a file holds for a provider
ProviderDatas ==
  {ProviderData(port, PyInt(587)) : port \in PortValues}
    \cup {ProviderData(PyInt(993), port) : port \in PortValues}
    \cup {PyDict(DictDel(ValueOf(GoodProviderData), RequiredFields[i])) :
            i \in 1..Len(RequiredFields)}
    \cup {PyDict(DictSet(ValueOf(GoodProviderData), "pop_port", PyInt(995))),
          PyDict(DictSet(ValueOf(GoodProviderData), "use_ssl", PyBool(FALSE))),
          PyStr("imap"), PyInt(5),
          PyList([i \in 1..Len(RequiredFields) |-> PyStr(RequiredFields[i])])}

\* what a file holds under "email_providers"
ProviderSections ==
  {PyDict([test |-> provider_data]) : provider_data \in ProviderDatas}
    \cup {PyDict(<<>>), PyList(<<>>),
          PyDict(DictSet(DefaultProviders, "test", GoodProviderData))}

Themes ==
  {PyStr("light"), PyStr("dark"), PyStr("auto"), PyStr("blue"), PyStr("Dark"), PyNone}

LogLevels ==
  {PyStr("DEBUG"), PyStr("INFO"), PyStr("WARNING"), PyStr("ERROR"),
   PyStr("CRITICAL"), PyStr("info"), PyStr("TRACE")}

\* what a file holds under "app_settings"
SettingsSections ==
  {PyDict([theme |-> theme, log_level |-> log_level]) :
     theme \in Themes, log_level \in LogLevels}
    \cup {PyDict(<<>>), PyDict(DefaultAppSettings), PyList(<<>>),
          PyDict([theme |-> PyStr("blue"), colour |-> PyStr("red")]),
          PyDict([theme |-> PyStr("dark"), colour |-> PyStr("red")])}

\* the values a file may hold
Documents ==
  {PyDict([email_providers |-> providers, app_settings |-> settings]) :
     providers \in ProviderSections, settings \in SettingsSections}
    \cup {PyDict([email_providers |-> providers]) : providers \in ProviderSections}
    \cup {PyDict([app_settings |-> settings]) : settings \in SettingsSections}
    \cup {PyDict(<<>>), PyList(<<>>), PyList(<<PyStr("email_providers")>>),
          PyStr("abc"), PyInt(5), PyNone}

\* the files that may lie at config_path
ConfigFiles == {json_dump(data) : data \in Documents} \cup {Truncated, NotJson}

InitLoad ==
  /\ AnalyzerIdle
  /\ JobsIdle
  /\ ManagerIdle
  /\ email_providers = <<>>
  /\ config_data = PyDict(<<>>)
  /\ app_settings = None
  /\ last_call = NoCall
  /\ config_file \in {Some(text) : text \in ConfigFiles} \cup {None}

NextLoad == \E io \in SaveOutcomes : ConfigManager(io)

SpecLoad == InitLoad /\ [][NextLoad]_vars

(***************************************************************************)
(* The updates of a ConfigManager and the file they leave: the calls that   *)
(* change the configuration, with configurations and settings a caller may *)
(* build from the dataclasses, which check nothing.                        *)
(***************************************************************************)
\* a provider whose IMAP port is 0
ZeroPortProvider ==
  EmailProviderConfig(PyStr("Zero"), PyStr("mail.example.org"), PyInt(0),
                      PyStr("mail.example.org"), PyInt(25), PyBool(TRUE),
                      PyBool(FALSE), PyBool(FALSE), PyNone, PyNone)

UpdateConfigs == {SampleProvider, ZeroPortProvider}

UpdateIds == {"gmail", "custom"}

\* the settings of the tests' fixture
SampleSettings ==
  AppSettings(PyInt(1000), PyInt(24), PyStr("dark"), PyStr("en"), PyBool(TRUE),
              PyBool(TRUE), PyStr("INFO"), PyStr("data"),
              PyList(<<PyStr("pdf"), PyStr("png"), PyStr("csv"), PyStr("json")>>))

\* settings built without export_formats, which __post_init__ fills in
LightSettings ==
  AppSettings(PyInt(500), PyInt(1), PyStr("light"), PyStr("en"), PyBool(FALSE),
              PyBool(TRUE), PyStr("DEBUG"), PyStr("data"), PyNone)

\* settings whose theme is none of light, dark, auto
BlueSettings ==
  AppSettings(PyInt(1000), PyInt(24), PyStr("blue"), PyStr("en"), PyBool(TRUE),
              PyBool(TRUE), PyStr("INFO"), PyStr("data"), PyNone)

UpdateSettings == {SampleSettings, LightSettings, BlueSettings}

NextRoundTrip ==
  \/ \E provider_id \in UpdateIds, config \in UpdateConfigs, io \in SaveOutcomes :
       update_email_provider(provider_id, config, io)
  \/ \E settings \in UpdateSettings, io \in SaveOutcomes :
       update_app_settings(settings, io)
  \/ \E provider_id \in UpdateIds, config \in UpdateConfigs, io \in SaveOutcomes :
       add_custom_provider(provider_id, config, io)
  \/ \E provider_id \in UpdateIds, io \in SaveOutcomes :
       remove_provider(provider_id, io)

SpecRoundTrip == InitConfig /\ [][NextRoundTrip]_vars


(***************************************************************************)
(* The connection of an EmailManager and the mailbox behind it             *)
(* (src/src/core/email_manager.py, class EmailManager).  connection is the *)
(* IMAP4 object of the last connect that created one, with the state of    *)
(* its session; connects counts the calls of connect and numbers the       *)
(* objects; manager_call is the last call with what it raised or returned. *)
(***************************************************************************)
MaxConnects == 3

\* what the server does to a connect: the session is opened and the login
\* accepted; the constructor of the IMAP4 object raises (an OSError, or
\* IMAP4.error on a bad greeting); login raises IMAP4.error, or another
\* exception
ConnectOutcomes ==
  {"logged in", "refused", "bad greeting", "login rejected", "login aborted"}

ManagerCall(op, args, io, raised, value) ==
  [op |-> op, args |-> args, io |-> io, raised |-> raised, value |-> value]

EmailAuthenticationError(message) == Raise("EmailAuthenticationError", message)

EmailConnectionError(message) == Raise("EmailConnectionError", message)

\* self._connected and self.connection is not None
is_connected_value == _connected /\ connection # None

connect(io) ==
  /\ connects < MaxConnects
  /\ connects' = connects + 1
  /\ IF io = "logged in"
     THEN /\ connection' = Some([serial |-> connects', state |-> "AUTH"])
          /\ _connected' = TRUE
          /\ manager_call' = ManagerCall("connect", <<>>, io, None, PyBool(TRUE))
     ELSE /\ connection' = IF io \in {"refused", "bad greeting"} THEN connection
                           ELSE Some([serial |-> connects', state |-> "NONAUTH"])
          /\ UNCHANGED _connected
          /\ manager_call' =
               ManagerCall("connect", <<>>, io,
                           IF io \in {"bad greeting", "login rejected"}
                           THEN EmailAuthenticationError(<<"Authentication failed">>)
                           ELSE EmailConnectionError(<<"Connection failed">>),
                           PyNone)
  /\ UNCHANGED <<analyzerVars, jobVars, configVars>>

\* disconnect; logout succeeds or raises
disconnect(io) ==
  /\ IF connection # None /\ _connected
     THEN /\ connection' = None
          /\ _connected' = FALSE
          /\ manager_call' = ManagerCall("disconnect", <<>>, io, None, PyNone)
     ELSE /\ UNCHANGED <<connection, _connected>>
          /\ manager_call' = ManagerCall("disconnect", <<>>, "no logout", None, PyNone)
  /\ UNCHANGED connects
  /\ UNCHANGED <<analyzerVars, jobVars, configVars>>

is_connected ==
  /\ manager_call' = ManagerCall("is_connected", <<>>, "", None, PyBool(is_connected_value))
  /\ UNCHANGED <<_connected, connection, connects>>
  /\ UNCHANGED <<analyzerVars, jobVars, configVars>>

\* s[start:stop] of Python: a negative index counts from the end, and both
\* are clipped to the list
PySlice(s, start, stop) ==
  LET Clip(i) == IF i < 0
                 THEN (IF i + Len(s) < 0 THEN 0 ELSE i + Len(s))
                 ELSE (IF i > Len(s) THEN Len(s) ELSE i)
  IN  IF Clip(start) < Clip(stop) THEN SubSeq(s, Clip(start) + 1, Clip(stop)) ELSE <<>>

\* the messages fetch_emails returns from the uids of the search result: a
\* message whose FETCH is not OK or whose parsing raises gives None in
\* _fetch_single_email and is passed over
FetchedEmails(mailbox, limit, offset) ==
  LET start_idx == IF Len(mailbox) - offset - limit > 0
                   THEN Len(mailbox) - offset - limit ELSE 0
      end_idx == Len(mailbox) - offset
      target_uids == PySlice(mailbox, start_idx, end_idx)
      fetched == SelectSeq(target_uids, LAMBDA message : message.fetch = "OK")
  IN  [i \in 1..Len(fetched) |-> fetched[i].uid]

\* fetch_emails(folder, limit, offset) on a mailbox; select and search
\* succeed or fail, and fail on a session that is not logged in
fetch_emails(mailbox, limit, offset, io) ==
  /\ manager_call' =
       IF ~is_connected_value
       THEN ManagerCall("fetch_emails", <<mailbox, limit, offset>>, io,
                        EmailConnectionError(<<"Not connected to email server">>), PyNone)
       ELSE IF connection.v.state # "AUTH" \/ io # "OK"
       THEN ManagerCall("fetch_emails", <<mailbox, limit, offset>>, io,
                        EmailConnectionError(<<"Failed to fetch emails">>), PyNone)
       ELSE ManagerCall("fetch_emails", <<mailbox, limit, offset>>, io, None,
                        PyList(FetchedEmails(mailbox, limit, offset)))
  /\ UNCHANGED <<_connected, connection, connects>>
  /\ UNCHANGED <<analyzerVars, jobVars, configVars>>

MaxMessages == 3

\* the mailboxes: messages with the uids 1, 2, ... in the order of the
\* search result; the second one, or none, cannot be fetched
Mailboxes ==
  UNION {{[i \in 1..n |-> [uid |-> i, fetch |-> IF i \in failing THEN "NO" ELSE "OK"]] :
            failing \in {{}, {2} \cap (1..n)}} : n \in 0..MaxMessages}

\* a mailbox of two messages, the first of which cannot be parsed
Unparseable == <<[uid |-> 1, fetch |-> "unparseable"], [uid |-> 2, fetch |-> "OK"]>>

InitManager == AnalyzerIdle /\ JobsIdle /\ ConfigIdle /\ ManagerIdle

NextManager ==
  \/ \E io \in ConnectOutcomes : connect(io)
  \/ \E io \in {"OK", "raises"} : disconnect(io)
  \/ is_connected
  \/ \E mailbox \in Mailboxes, limit \in 0..MaxMessages, offset \in 0..(MaxMessages + 2) :
       fetch_emails(mailbox, limit, offset, "OK")
  \/ \E io \in {"OK", "select failed", "search failed"} :
       fetch_emails(Unparseable, 2, 0, io)

SpecManager == InitManager /\ [][NextManager]_vars

(***************************************************************************)
(* Properties of the totals, the empty bundle and the failure behaviour,   *)
(* under Spec.                                                             *)
(***************************************************************************)
Dated(es) == {i \in 1..Len(es) : ~es[i].date.none}

SumOfSizes(es) == SumSeq([i \in 1..Len(es) |-> es[i].size])

\* the sum of the values of a mapping
RECURSIVE SumValues(_, _)
SumValues(f, keys) ==
  IF keys = {} THEN 0
  ELSE LET k == CHOOSE x \in keys : TRUE IN f[k] + SumValues(f, keys \ {k})

\* C1: for every input sequence, the empty one included, analyze_emails
\* returns total_emails equal to the number of records and total_size_mb
\* equal to the sum of their sizes divided by 1,048,576; records with a
\* missing subject, sender or timestamp are counted in both.
C1_TotalsForEveryInput ==
  pc = "done" =>
    /\ outcome = "returned"
    /\ results.total_emails = Len(emails)
    /\ results.total_size_mb = Frac(SumOfSizes(emails), 1048576)

\* the totals are as stated in every bundle that is returned
C1_TotalsWhenReturned ==
  outcome = "returned" =>
    /\ results.total_emails = Len(emails)
    /\ results.total_size_mb = Frac(SumOfSizes(emails), 1048576)

SentimentPercentages == {"positive_percentage", "negative_percentage", "neutral_percentage"}

\* C2: for the empty input analyze_emails returns, without error, a bundle
\* with total_emails 0, date_range "No emails", top_senders empty, and the
\* three sentiment percentages present and equal to 0.
C2_EmptyBundle ==
  (pc = "done" /\ emails = <<>>) =>
    /\ outcome = "returned"
    /\ results.total_emails = 0
    /\ results.date_range = "No emails"
    /\ results.top_senders = <<>>
    /\ \A k \in SentimentPercentages :
         /\ k \in DOMAIN results.sentiment_analysis
         /\ results.sentiment_analysis[k] = Frac(0, 1)

\* the bundle of the empty input has the count, the sentinel and the empty
\* sender list, and an empty sentiment mapping
C2_EmptyBundleAsCoded ==
  (pc = "done" /\ emails = <<>>) =>
    /\ outcome = "returned"
    /\ results.total_emails = 0
    /\ results.date_range = "No emails"
    /\ results.top_senders = <<>>
    /\ DOMAIN results.sentiment_analysis = {}

\* C3: when the computation of one sub-statistic raises (here the response
\* times), the call still returns a bundle, with that sub-statistic in its
\* empty form and the other sub-statistics computed as without the fault.
C3_FaultIsolated ==
  (pc = "done" /\ ResponseTimesRaise(emails)) =>
    /\ outcome = "returned"
    /\ results.response_time_analysis = _empty_results.response_time_analysis
    /\ results.total_emails = Len(emails)
    /\ results.date_range = _get_date_range(emails)
    /\ results.total_size_mb = _calculate_total_size(emails)
    /\ results.top_senders = _analyze_senders(emails)
    /\ results.activity_by_time = _analyze_time_activity(emails)
    /\ results.email_size_distribution = _analyze_size_distribution(emails)
    /\ results.thread_analysis = _analyze_threads(emails)
    /\ results.sentiment_analysis = _analyze_sentiment(emails)

\* C4: analyze_emails signals no error when records have no timestamp, also
\* when such a record shares its thread key with another record: a bundle is
\* returned, the record is counted in total_emails and skipped only in the
\* time-based sub-statistics.
C4_MissingTimestampTolerated ==
  (pc = "done" /\ Dated(emails) # 1..Len(emails)) =>
    /\ outcome = "returned"
    /\ results.total_emails = Len(emails)
    /\ SumValues(results.activity_by_hour, DOMAIN results.activity_by_hour)
         = Cardinality(Dated(emails))
    /\ SumValues(results.activity_by_day, DOMAIN results.activity_by_day)
         = Cardinality(Dated(emails))

\* a record without a timestamp is tolerated when no thread of two or more
\* members contains one
C4_ToleratedOutsideThreads ==
  (pc = "done" /\ Dated(emails) # 1..Len(emails) /\ ~ResponseTimesRaise(emails)) =>
    /\ outcome = "returned"
    /\ results.total_emails = Len(emails)
    /\ SumValues(results.activity_by_hour, DOMAIN results.activity_by_hour)
         = Cardinality(Dated(emails))

\* C5: date_range is built from the least and the greatest of the timestamps
\* that are present; it is "No valid dates" exactly when the input is not
\* empty and no record has a timestamp, and "No emails" exactly when the
\* input is empty.
C5_DateRange ==
  outcome = "returned" =>
    /\ results.date_range = "No emails" <=> emails = <<>>
    /\ results.date_range = "No valid dates" <=> (emails # <<>> /\ Dated(emails) = {})
    /\ Dated(emails) # {} =>
         \E i, j \in Dated(emails) :
           /\ \A k \in Dated(emails) :
                emails[i].date.v <= emails[k].date.v /\ emails[k].date.v <= emails[j].date.v
           /\ results.date_range
                = strftime(emails[i].date.v) \o " to " \o strftime(emails[j].date.v)

\* a later day first, an earlier day second: the range is not in input order
C5_Witness ==
  /\ outcome = "returned"
  /\ Len(emails) = 2
  /\ emails[1].date = Some(Jan2Morning)
  /\ emails[2].date = Some(Jan1Afternoon)
  /\ results.date_range = "2024-01-01 to 2024-01-02"

\* a record without a timestamp beside one with a timestamp
C5_WitnessMissing ==
  /\ outcome = "returned"
  /\ Len(emails) = 2
  /\ emails[1].date.none
  /\ ~emails[2].date.none
  /\ results.date_range = "2024-01-01 to 2024-01-01"

(***************************************************************************)
(* Properties of the top senders, under SpecSenders.                       *)
(***************************************************************************)
\* the keys of the records with a non-empty sender, in input order
RECURSIVE KeysOf(_)
KeysOf(es) ==
  IF es = <<>> THEN <<>>
  ELSE IF Head(es).sender = <<>> THEN KeysOf(Tail(es))
  ELSE <<SenderKey(Head(es).sender)>> \o KeysOf(Tail(es))

KeyCount(keys, k) == Cardinality({i \in 1..Len(keys) : keys[i] = k})

FirstSeen(keys, k) == SetMin({i \in 1..Len(keys) : keys[i] = k})

Listed(top) == {top[i][1] : i \in 1..Len(top)}

\* C6: top_senders lists at most 20 (key, count) pairs in non-increasing
\* count order; a count is the number of records with a non-empty sender
\* whose key it is (the embedded address, or the raw sender when it holds no
\* address); no key with a strictly higher count than a listed key is left
\* out; keys of equal count are in the order they were first met.
C6_TopSenders ==
  pc = "done" =>
    /\ outcome = "returned"
    /\ LET top == results.top_senders
           keys == KeysOf(emails)
           all == SeqToSet(keys)
       IN  /\ Len(top) <= 20
           /\ Len(top) = Cardinality(Listed(top))
           /\ Cardinality(all) <= 20 => Listed(top) = all
           /\ \A i \in 1..Len(top) :
                /\ top[i][1] \in all
                /\ top[i][2] = KeyCount(keys, top[i][1])
           /\ \A i, j \in 1..Len(top) :
                i < j =>
                  /\ top[i][2] >= top[j][2]
                  /\ top[i][2] = top[j][2] =>
                       FirstSeen(keys, top[i][1]) < FirstSeen(keys, top[j][1])
           /\ \A k \in all \ Listed(top) :
                /\ Len(top) = 20
                /\ \A i \in 1..Len(top) : KeyCount(keys, k) <= top[i][2]
           /\ \A i \in 1..Len(emails) :
                /\ emails[i].sender = TxtBob21 => NumberedAddress(21) \in all
                /\ emails[i].sender = TxtNobody => TxtNobody \in all
                /\ emails[i].sender = TxtNoTld => TxtNoTld \in all

\* more than 20 keys, one counted twice through an embedded address and
\* ranked first, the others tied
C6_Witness ==
  /\ outcome = "returned"
  /\ Cardinality(SeqToSet(KeysOf(emails))) > 20
  /\ Len(results.top_senders) = 20
  /\ results.top_senders[1] = <<NumberedAddress(21), 2>>
  /\ results.top_senders[2] = <<NumberedAddress(1), 1>>
  /\ \E i \in 1..Len(emails) : emails[i].sender = TxtBob21

(***************************************************************************)
(* Properties of the time-of-day bands, under SpecTime.                    *)
(***************************************************************************)
\* the count a mapping holds for a key, 0 for a key it does not hold
CountAt(f, k) == IF k \in DOMAIN f THEN f[k] ELSE 0

HoursIn(es, lo, hi) ==
  Cardinality({i \in Dated(es) : lo <= HourOf(es[i].date.v) /\ HourOf(es[i].date.v) < hi})

TimeBandNames == {"Morning (6-12)", "Afternoon (12-17)", "Evening (17-22)", "Night (22-6)"}

\* C7: every record with a timestamp is counted in exactly one band, given
\* by its hour h: Morning for 6 <= h < 12, Afternoon for 12 <= h < 17,
\* Evening for 17 <= h < 22, Night for h >= 22 or h < 6; the band counts
\* sum to the number of records with a timestamp.
C7_TimeBands ==
  pc = "done" =>
    /\ outcome = "returned"
    /\ LET a == results.activity_by_time
       IN  /\ DOMAIN a \subseteq TimeBandNames
           /\ \A k \in DOMAIN a : a[k] > 0
           /\ CountAt(a, "Morning (6-12)") = HoursIn(emails, 6, 12)
           /\ CountAt(a, "Afternoon (12-17)") = HoursIn(emails, 12, 17)
           /\ CountAt(a, "Evening (17-22)") = HoursIn(emails, 17, 22)
           /\ CountAt(a, "Night (22-6)") = HoursIn(emails, 22, 24) + HoursIn(emails, 0, 6)
           /\ SumValues(a, DOMAIN a) = Cardinality(Dated(emails))

\* 11:59 beside 12:00: one Morning, one Afternoon
C7_Witness ==
  /\ outcome = "returned"
  /\ Len(emails) = 2
  /\ emails[1].date = Some(1440 + 11 * 60 + 59)
  /\ emails[2].date = Some(12 * 60)
  /\ results.activity_by_time = [k \in {"Morning (6-12)", "Afternoon (12-17)"} |-> 1]

\* 05:00 beside a record without a timestamp: one Night, nothing else
C7_WitnessNight ==
  /\ outcome = "returned"
  /\ Len(emails) = 2
  /\ emails[1].date = Some(5 * 60)
  /\ emails[2].date.none
  /\ results.activity_by_time = [k \in {"Night (22-6)"} |-> 1]

(***************************************************************************)
(* Properties of the size bands, under SpecSize.                           *)
(***************************************************************************)
SizesIn(es, lo, hi) == Cardinality({i \in 1..Len(es) : lo <= es[i].size /\ es[i].size < hi})

SizesFrom(es, lo) == Cardinality({i \in 1..Len(es) : lo <= es[i].size})

\* C8: for a non-empty input every record is counted in exactly one size
\* band: Small for size < 1024, Medium for 1024 <= size < 10240, Large for
\* 10240 <= size < 102400, Very Large for size >= 102400; the four counts
\* sum to total_emails.
C8_SizeBands ==
  (pc = "done" /\ emails # <<>>) =>
    /\ outcome = "returned"
    /\ LET r == results.email_size_distribution.size_ranges
       IN  /\ DOMAIN r = SizeBandNames
           /\ r["Small (< 1KB)"] = SizesIn(emails, 0, 1024)
           /\ r["Medium (1KB - 10KB)"] = SizesIn(emails, 1024, 10240)
           /\ r["Large (10KB - 100KB)"] = SizesIn(emails, 10240, 102400)
           /\ r["Very Large (> 100KB)"] = SizesFrom(emails, 102400)
           /\ SumValues(r, DOMAIN r) = results.total_emails

\* the sizes 1023, 1024 and 102400: Small, Medium and Very Large
C8_Witness ==
  /\ outcome = "returned"
  /\ Len(emails) = 3
  /\ emails[1].size = 1023 /\ emails[2].size = 1024 /\ emails[3].size = 102400
  /\ results.email_size_distribution.size_ranges["Small (< 1KB)"] = 1
  /\ results.email_size_distribution.size_ranges["Medium (1KB - 10KB)"] = 1
  /\ results.email_size_distribution.size_ranges["Large (10KB - 100KB)"] = 0
  /\ results.email_size_distribution.size_ranges["Very Large (> 100KB)"] = 1

(***************************************************************************)
(* Properties of the thread grouping, under SpecThreads.                   *)
(***************************************************************************)
TxtBudgetKey == <<"b","u","d","g","e","t"," ","q","1">>

\* subjects that differ from "Budget Q1" by one leading prefix and by case
BudgetFamily == {TxtReBudget, TxtREbudget, TxtBudget, TxtFwdBudget, TxtFwBudget}

\* the subjects of the inputs, by the threads they are to form, each with
\* the key of its thread
SubjectFamilies ==
  {<<BudgetFamily, TxtBudgetKey>>,
   <<{TxtReReBudget}, Lower(TxtReBudget)>>,
   <<{TxtRegards}, Lower(TxtRegards)>>,
   <<{TxtOther}, Lower(TxtOther)>>}

MembersOf(es, family) ==
  Cardinality({i \in 1..Len(es) : ~es[i].subject.none /\ es[i].subject.v \in family})

\* C9: in thread_analysis, subjects that differ only by one leading
\* Re:/Fwd:/FW: prefix (any case, optional white space after the colon) and
\* by case are grouped under one thread key, and a group with one member is
\* counted neither in total_threads nor in top_threads.
C9_ThreadGrouping ==
  (pc = "done" /\ emails # <<>>) =>
    /\ outcome = "returned"
    /\ LET t == results.thread_analysis
           threads == {f \in SubjectFamilies : MembersOf(emails, f[1]) >= 2}
       IN  /\ t.total_threads = Cardinality(threads)
           /\ Len(t.top_threads) = Cardinality(threads)
           /\ \A f \in threads :
                \E i \in 1..Len(t.top_threads) :
                  /\ t.top_threads[i].subject = f[2]
                  /\ t.top_threads[i].count = MembersOf(emails, f[1])
           /\ \A i \in 1..Len(t.top_threads) : t.top_threads[i].count >= 2

\* "Re: Budget Q1", "RE: budget q1" and "Budget Q1" form one thread of 3
C9_Witness ==
  /\ outcome = "returned"
  /\ Len(emails) = 3
  /\ emails[1].subject = Some(TxtReBudget)
  /\ emails[2].subject = Some(TxtREbudget)
  /\ emails[3].subject = Some(TxtBudget)
  /\ results.thread_analysis.total_threads = 1
  /\ results.thread_analysis.top_threads[1].subject = TxtBudgetKey
  /\ results.thread_analysis.top_threads[1].count = 3

\* a thread of two beside a group of one, which is not reported
C9_WitnessSingle ==
  /\ outcome = "returned"
  /\ Len(emails) = 3
  /\ emails[1].subject = Some(TxtOther)
  /\ emails[2].subject = Some(TxtFwdBudget)
  /\ emails[3].subject = Some(TxtFwBudget)
  /\ results.thread_analysis.total_threads = 1
  /\ Len(results.thread_analysis.top_threads) = 1

(***************************************************************************)
(* Properties of the attachment analysis, under SpecAttachments.           *)
(***************************************************************************)
TxtNoExtension == <<"n","o","_","e","x","t","e","n","s","i","o","n">>

\* e is the lowercased text after the last "." of filename, or "no_extension"
\* when filename holds no "."
IsExtensionOf(e, filename) ==
  \/ /\ \A p \in 1..Len(filename) : filename[p] # "."
     /\ e = TxtNoExtension
  \/ \E p \in 1..Len(filename) :
       /\ filename[p] = "."
       /\ \A q \in (p + 1)..Len(filename) : filename[q] # "."
       /\ e = Lower(SubSeq(filename, p + 1, Len(filename)))

\* the attachments of the input, as <<record index, attachment index>> pairs
Filenames(es) ==
  UNION {{<<i, j>> : j \in 1..Len(es[i].attachments)} : i \in 1..Len(es)}

FilesOfType(es, e) ==
  Cardinality({ij \in Filenames(es) : IsExtensionOf(e, es[ij[1]].attachments[ij[2]])})

WithAttachments(es) == {i \in 1..Len(es) : es[i].attachments # <<>>}

\* C10: in attachment_analysis each filename is counted under the lowercased
\* text after its last ".", or under "no_extension" when it holds no "."
\* ("report.v2.PDF" under "pdf", "noext" under "no_extension");
\* attachment_rate is (records with an attachment / records) * 100.
C10_Attachments ==
  (pc = "done" /\ emails # <<>>) =>
    /\ outcome = "returned"
    /\ LET a == results.attachment_analysis
           types == a.attachment_types
       IN  /\ a.attachment_rate = Frac(Cardinality(WithAttachments(emails)) * 100, Len(emails))
           /\ a.total_attachments = Cardinality(Filenames(emails))
           /\ \A i \in 1..Len(types) :
                /\ types[i][2] = FilesOfType(emails, types[i][1])
                /\ types[i][2] >= 1
           /\ Len(types) < AttachmentTypesLimit =>
                /\ \A ij \in Filenames(emails) :
                     \E i \in 1..Len(types) :
                       IsExtensionOf(types[i][1], emails[ij[1]].attachments[ij[2]])
                /\ \A ij \in Filenames(emails) :
                     /\ emails[ij[1]].attachments[ij[2]] = TxtReportPdf =>
                          \E i \in 1..Len(types) : types[i][1] = <<"p", "d", "f">>
                     /\ emails[ij[1]].attachments[ij[2]] = TxtNoext =>
                          \E i \in 1..Len(types) : types[i][1] = TxtNoExtension

\* "report.v2.PDF" and "notes.pdf" under "pdf", "noext" under "no_extension",
\* two of three records with attachments
C10_Witness ==
  /\ outcome = "returned"
  /\ Len(emails) = 3
  /\ emails[1].attachments = <<TxtReportPdf>>
  /\ emails[2].attachments = <<>>
  /\ emails[3].attachments = <<TxtTrailing, TxtNoext>>
  /\ results.attachment_analysis.attachment_types
       = <<<<<<"p", "d", "f">>, 1>>, <<<<>>, 1>>, <<TxtNoExtension, 1>>>>
  /\ results.attachment_analysis.attachment_rate = Frac(200, 3)

(***************************************************************************)
(* Properties of the sentiment classes, under SpecSentiment.               *)
(***************************************************************************)
\* the number of different words of the vocabulary among the tokens of the
\* record's lower-cased subject and body
DistinctHits(email, vocabulary) ==
  LET ws == Words(SubjectAndBody(email))
  IN  Cardinality({w \in vocabulary : \E i \in 1..Len(ws) : ws[i] = w})

SentimentTies(es) ==
  {i \in 1..Len(es) : DistinctHits(es[i], positive_words) = DistinctHits(es[i], negative_words)}

\* C11: a record whose text holds as many different positive-vocabulary words
\* as different negative-vocabulary words (none of each included) is counted
\* as neutral, however often each of the words is repeated in the text.
C11_TieIsNeutral ==
  (pc = "done" /\ emails # <<>>) =>
    /\ outcome = "returned"
    /\ results.sentiment_analysis.neutral >= Cardinality(SentimentTies(emails))

\* "good good bad": one positive word twice, one negative word once
C11_Witness ==
  /\ outcome = "returned"
  /\ emails = <<Texted(None, TxtGoodGoodBad)>>
  /\ results.sentiment_analysis.neutral = 1
  /\ results.sentiment_analysis.positive = 0

(***************************************************************************)
(* Properties of the keyword analysis, under SpecKeywords.                 *)
(***************************************************************************)
\* the letter-only tokens of at least three letters of all records that are
\* not stop words
RetainedTokens(es) ==
  UNION {{w \in SeqToSet(AlphaWords(SubjectAndBody(es[i]))) : w \notin stop_words} :
           i \in 1..Len(es)}

\* C12: in keyword_analysis no reported keyword is a stop word or shorter
\* than 3 letters; top_keywords holds at most 50 retained tokens in
\* non-increasing order of frequency; total_unique_words is the number of
\* different retained tokens of all records; most_common_word is the first
\* entry of top_keywords, or None when no token was retained.
C12_Keywords ==
  (pc = "done" /\ emails # <<>>) =>
    /\ outcome = "returned"
    /\ LET k == results.keyword_analysis
           top == k.top_keywords
           retained == RetainedTokens(emails)
       IN  /\ \A i \in 1..Len(top) :
                /\ top[i][1] \notin stop_words
                /\ Len(top[i][1]) >= 3
                /\ top[i][1] \in retained
           /\ Len(top) <= 50
           /\ Len(top) = IF Cardinality(retained) < 50 THEN Cardinality(retained) ELSE 50
           /\ \A i \in 1..Len(top) : \A j \in 1..Len(top) :
                i < j => (top[i][2] >= top[j][2] /\ top[i][1] # top[j][1])
           /\ k.total_unique_words = Cardinality(retained)
           /\ k.most_common_word = IF retained = {} THEN None ELSE Some(top[1])

\* 51 different tokens, once each: the first 50 met are reported
C12_Witness ==
  /\ outcome = "returned"
  /\ emails = [i \in 1..3 |-> Texted(Some(<<>>), ManyWords(i - 1))]
  /\ results.keyword_analysis.total_unique_words > 50
  /\ Len(results.keyword_analysis.top_keywords) = 50
  /\ results.keyword_analysis.most_common_word = Some(<<NumberedWord(0), 1>>)

\* a token three times, one once, short and mixed tokens dropped
C12_WitnessRepeated ==
  /\ outcome = "returned"
  /\ emails = <<Texted(Some(<<>>), TxtOddTokens), Texted(Some(<<>>), TxtDogMat)>>
  /\ results.keyword_analysis.top_keywords = <<<<<<"d","o","g">>, 5>>, <<<<"m","a","t">>, 1>>>>

\* only stop words and short tokens: nothing is retained
C12_WitnessNone ==
  /\ outcome = "returned"
  /\ emails = <<Texted(Some(<<>>), TxtOnA)>>
  /\ results.keyword_analysis.top_keywords = <<>>
  /\ results.keyword_analysis.most_common_word = None

(***************************************************************************)
(* Properties of the response-time analysis, under SpecResponse.           *)
(***************************************************************************)
\* the subjects of the inputs, by the threads they form
ResponseFamilies == {{TxtHello, TxtReHello}, {TxtOther}}

InFamily(es, family) ==
  {i \in 1..Len(es) : ~es[i].subject.none /\ es[i].subject.v \in family}

\* the threads of two members or more
RepliedFamilies(es) == {f \in ResponseFamilies : Cardinality(InFamily(es, f)) >= 2}

\* minutes between the earliest and the latest member of a thread
SpanOf(es, family) ==
  LET dates == {es[i].date.v : i \in InFamily(es, family)}
  IN  SetMax(dates) - SetMin(dates)

RepliesOf(es, family) == Cardinality(InFamily(es, family)) - 1

RECURSIVE SumReplies(_, _)
SumReplies(es, families) ==
  IF families = {} THEN 0
  ELSE LET f == CHOOSE x \in families : TRUE
       IN  RepliesOf(es, f) + SumReplies(es, families \ {f})

HelloThread ==
  {Threaded(Some(TxtHello), Some(Jan1Morning)), Threaded(Some(TxtReHello), Some(Jan1Afternoon)),
   Threaded(Some(TxtReHello), Some(Jan2Morning))}

\* C13: when every record has a timestamp, response_time_samples is the sum
\* of (size - 1) over the threads of at least 2 members; the differences are
\* taken between consecutive members in ascending order of timestamp, so
\* that none exceeds the span of its thread and the least of them is not
\* negative in whatever order the records come; the four fields are 0 when
\* no thread has 2 members; 09:00, 15:00 and 09:00 of the next day in one
\* thread give 2 samples, of 6 and 18 hours.
C13_ResponseTimes ==
  (pc = "done" /\ emails # <<>> /\ \A i \in 1..Len(emails) : ~emails[i].date.none) =>
    /\ outcome = "returned"
    /\ LET r == results.response_time_analysis
           replied == RepliedFamilies(emails)
       IN  /\ r.response_time_samples = SumReplies(emails, replied)
           /\ ~FloatLess(r.min_response_time_hours, FloatZero)
           /\ ~FloatLess(r.avg_response_time_hours, r.min_response_time_hours)
           /\ ~FloatLess(r.max_response_time_hours, r.avg_response_time_hours)
           /\ replied # {} =>
                \E f \in replied :
                  ~FloatLess(IntDiv(SpanOf(emails, f), 60), r.max_response_time_hours)
           /\ \A f \in replied :
                (replied = {f} /\ RepliesOf(emails, f) = 1) =>
                  /\ r.min_response_time_hours = IntDiv(SpanOf(emails, f), 60)
                  /\ r.max_response_time_hours = IntDiv(SpanOf(emails, f), 60)
           /\ replied = {} =>
                /\ r.avg_response_time_hours = FloatZero
                /\ r.min_response_time_hours = FloatZero
                /\ r.max_response_time_hours = FloatZero
                /\ r.response_time_samples = 0
           /\ (Len(emails) = 3 /\ SeqToSet(emails) = HelloThread) =>
                /\ r.response_time_samples = 2
                /\ r.min_response_time_hours = FloatOfInt(6)
                /\ r.max_response_time_hours = FloatOfInt(18)
                /\ r.avg_response_time_hours = FloatOfInt(12)

\* the thread of the example given latest first, after a thread of two
\* members given latest first: 3 samples, of 6, 6 and 18 hours
C13_Witness ==
  /\ outcome = "returned"
  /\ emails = ResponseBase \o <<Threaded(Some(TxtReHello), Some(Jan2Morning)),
                                Threaded(Some(TxtReHello), Some(Jan1Afternoon)),
                                Threaded(Some(TxtHello), Some(Jan1Morning))>>
  /\ results.response_time_analysis.response_time_samples = 3
  /\ results.response_time_analysis.min_response_time_hours = FloatOfInt(6)
  /\ results.response_time_analysis.max_response_time_hours = FloatOfInt(18)
  /\ results.response_time_analysis.avg_response_time_hours = FloatOfInt(10)

\* no thread of two members: every field is 0
C13_WitnessNoThread ==
  /\ outcome = "returned"
  /\ emails = <<Threaded(Some(TxtHello), Some(Jan1Morning)), Threaded(None, Some(Jan1Morning))>>
  /\ results.response_time_analysis.response_time_samples = 0
  /\ results.response_time_analysis.max_response_time_hours = FloatZero

(***************************************************************************)
(* Properties of the domain analysis, under SpecDomains.                   *)
(***************************************************************************)
\* the senders of the inputs, each with the domain that follows its first
\* "@", when a domain with a top-level part of two letters or more does
SenderDomains ==
  {<<TxtAddrA, Some(<<"x",".","c","o","m">>)>>,
   <<TxtAddrB, Some(<<"x",".","c","o","m">>)>>,
   <<TxtCarol, Some(<<"y",".","o","r","g">>)>>,
   <<TxtAddrUpper, Some(<<"X",".","c","o","m">>)>>,
   <<TxtAddrDeep, Some(<<"m",".","x",".","c","o",".","u","k">>)>>,
   <<TxtTwoAddrs, Some(<<"z",".","i","o">>)>>,
   <<TxtNobody, None>>,
   <<TxtNoTld, None>>,
   <<<<>>, None>>}

DomainOfSender(sender) == (CHOOSE p \in SenderDomains : p[1] = sender)[2]

\* the records whose sender gives the domain
WithDomain(es, domain) == {i \in 1..Len(es) : DomainOfSender(es[i].sender) = Some(domain)}

DomainsOf(es) ==
  {DomainOfSender(es[i].sender).v : i \in {j \in 1..Len(es) : ~DomainOfSender(es[j].sender).none}}

\* C16: in domain_analysis total_domains is the number of different domains
\* extracted from the senders, and domain_diversity is total_domains divided
\* by the number of input records, hence between 0 and 1; a record whose
\* sender is empty or has no extractable domain counts in the divisor and
\* in no domain's count.
C16_Domains ==
  (pc = "done" /\ emails # <<>>) =>
    /\ outcome = "returned"
    /\ LET d == results.domain_analysis
           domains == DomainsOf(emails)
       IN  /\ d.total_domains = Cardinality(domains)
           /\ d.domain_diversity = Frac(Cardinality(domains), Len(emails))
           /\ d.domain_diversity.num >= 0
           /\ d.domain_diversity.num <= d.domain_diversity.den
           /\ Len(d.top_domains) = Cardinality(domains)
           /\ \A i \in 1..Len(d.top_domains) :
                /\ d.top_domains[i][1] \in domains
                /\ d.top_domains[i][2] = Cardinality(WithDomain(emails, d.top_domains[i][1]))

\* two records of one domain, one record without a domain: 1 domain over 3
C16_Witness ==
  /\ outcome = "returned"
  /\ emails = <<Plain(TxtAddrA, None, 0, <<>>), Plain(TxtNobody, None, 0, <<>>),
                Plain(TxtAddrB, None, 0, <<>>)>>
  /\ results.domain_analysis.total_domains = 1
  /\ results.domain_analysis.domain_diversity = Frac(1, 3)
  /\ results.domain_analysis.top_domains = <<<<<<"x",".","c","o","m">>, 2>>>>

\* an empty sender beside an address: 1 domain over 2
C16_WitnessEmptySender ==
  /\ outcome = "returned"
  /\ emails = <<Plain(<<>>, None, 0, <<>>), Plain(TxtCarol, None, 0, <<>>)>>
  /\ results.domain_analysis.domain_diversity = Frac(1, 2)

DistinctCounts(counter) ==
  \A i \in 1..Len(counter) : \A j \in 1..Len(counter) :
    i # j => counter[i][2] # counter[j][2]

\* no two senders, no two domains, no two subject words, no two keywords,
\* no two extensions and no two thread groups are met equally often
NoEqualCounts(es) ==
  LET with_subject == SelectSeq(es, LAMBDA email : Truthy(email.subject))
      subject_words ==
        ConcatAll([i \in 1..Len(with_subject) |-> Words(Lower(with_subject[i].subject.v))])
      keywords ==
        ConcatAll([i \in 1..Len(es) |->
                     SelectSeq(AlphaWords(SubjectAndBody(es[i])), LAMBDA w : w \notin stop_words)])
      extensions ==
        ConcatAll([i \in 1..Len(es) |->
                     [k \in 1..Len(es[i].attachments) |-> AttachmentExt(es[i].attachments[k])]])
      groups == ThreadGroups(<<>>, es)
  IN  /\ DistinctCounts(SenderCounter(<<>>, es))
      /\ DistinctCounts(DomainCounter(<<>>, es))
      /\ DistinctCounts(CounterUpdate(<<>>, subject_words))
      /\ DistinctCounts(CounterUpdate(<<>>, keywords))
      /\ DistinctCounts(CounterUpdate(<<>>, extensions))
      /\ DistinctCounts([i \in 1..Len(groups) |-> <<groups[i][1], Len(groups[i][2])>>])

\* C15: for an input in which no two counter keys (senders, domains, tokens,
\* extensions, threads) have equal counts, analyze_emails returns the same
\* bundle whatever the order of the records.
C15_SameBundleAnyOrder ==
  [][(pc' = "permuted" /\ NoEqualCounts(emails)) =>
       /\ outcome' = outcome
       /\ results' = results]_vars

\* but for the average of the response times, the bundle is the same
C15_SameButAverage ==
  [][(pc' = "permuted" /\ NoEqualCounts(emails)) =>
       /\ outcome' = "returned"
       /\ outcome = "returned"
       /\ [results' EXCEPT !.response_time_analysis.avg_response_time_hours = FloatZero]
            = [results EXCEPT !.response_time_analysis.avg_response_time_hours = FloatZero]]_vars

(***************************************************************************)
(* Properties of the registry of analysis jobs, under SpecJobs.            *)
(***************************************************************************)
\* the moves of a status the life cycle of a job allows
StatusMoves ==
  {<<"pending", "running">>, <<"running", "completed">>, <<"running", "failed">>}

\* C17: the status of a job moves only pending -> running -> completed or
\* running -> failed: a job enters the registry as pending, by
\* start_analysis and under an id that was never issued; every step of
\* run_analysis_task and every route leaves the status of a job or makes
\* one of these moves, so the status of a completed or failed job never
\* changes again
C17_StatusMoves ==
  [][analysis_jobs' # analysis_jobs => \A analysis_id \in JobIds :
       /\ (HasJob(analysis_jobs', analysis_id) /\ ~HasJob(analysis_jobs, analysis_id))
            => /\ JobOf(analysis_jobs', analysis_id).status = "pending"
               /\ response'.route = "start_analysis"
               /\ response'.id = analysis_id
               /\ analysis_id \notin issued
       /\ (HasJob(analysis_jobs', analysis_id) /\ HasJob(analysis_jobs, analysis_id))
            => \/ JobOf(analysis_jobs', analysis_id).status =
                    JobOf(analysis_jobs, analysis_id).status
               \/ <<JobOf(analysis_jobs, analysis_id).status,
                    JobOf(analysis_jobs', analysis_id).status>> \in StatusMoves
       /\ (HasJob(analysis_jobs, analysis_id)
             /\ JobOf(analysis_jobs, analysis_id).status \in {"completed", "failed"}
             /\ HasJob(analysis_jobs', analysis_id))
            => JobOf(analysis_jobs', analysis_id).status =
                 JobOf(analysis_jobs, analysis_id).status]_vars

\* a job went through its task and is completed while a later job is still
\* pending, and the status route shows the completed job to its owner
C17_Witness ==
  /\ Len(analysis_jobs) = 2
  /\ analysis_jobs[1].status = "completed"
  /\ analysis_jobs[1].progress = 100
  /\ analysis_jobs[2].status = "pending"
  /\ task = [id |-> analysis_jobs[1].id, pc |-> "returned"]
  /\ response.route = "get_analysis_status"
  /\ response.code = 200
  /\ response.body.status = "completed"

\* a job is running: its task is between two of its steps
C17_WitnessRunning ==
  /\ task.pc = "storing"
  /\ HasJob(analysis_jobs, task.id)
  /\ JobOf(analysis_jobs, task.id).status = "running"
  /\ JobOf(analysis_jobs, task.id).progress = 80

\* the task of a deleted job ends with the KeyError of its except block
C17_WitnessDeleted ==
  /\ task.pc = "raised"
  /\ ~HasJob(analysis_jobs, task.id)
  /\ task.id \in issued

\* no step of the model makes a job failed: the only statement of the try
\* block that can raise is the first one, on a deleted job
C17_NoJobFails ==
  \A i \in 1..Len(analysis_jobs) : analysis_jobs[i].status # "failed"

\* the routes that name one job
JobRoutes == {"get_analysis_status", "get_analysis_results", "delete_analysis"}

\* C18: a user observes and removes only their own jobs, whatever starts
\* and deletions came before: a request of get_analysis_status,
\* get_analysis_results or delete_analysis on a job of another user is
\* answered 403 and leaves the registry as it is; a job such a request
\* shows or removes, and every job list_analyses shows, is a job of the
\* caller; the completed jobs get_last_analysis picks from are jobs of
\* the caller
C18_OwnJobsOnly ==
  [][response' # response =>
       /\ (response'.route \in JobRoutes
             /\ HasJob(analysis_jobs, response'.id)
             /\ JobOf(analysis_jobs, response'.id).user_id # response'.user)
            => /\ response'.code = 403
               /\ analysis_jobs' = analysis_jobs
       /\ (response'.route \in JobRoutes /\ response'.code = 200)
            => /\ HasJob(analysis_jobs, response'.id)
               /\ JobOf(analysis_jobs, response'.id).user_id = response'.user
       /\ (response'.route \in JobRoutes /\ analysis_jobs' # analysis_jobs)
            => /\ response'.route = "delete_analysis"
               /\ JobOf(analysis_jobs, response'.id).user_id = response'.user
               /\ analysis_jobs' = DelJob(analysis_jobs, response'.id)
       /\ response'.route = "list_analyses"
            => /\ analysis_jobs' = analysis_jobs
               /\ \A i \in 1..Len(response'.body.analyses) :
                    /\ HasJob(analysis_jobs, response'.body.analyses[i].analysis_id)
                    /\ JobOf(analysis_jobs, response'.body.analyses[i].analysis_id).user_id
                         = response'.user
       /\ response'.route = "get_last_analysis"
            => /\ analysis_jobs' = analysis_jobs
               /\ \A j \in SeqToSet(CompletedOf(analysis_jobs, response'.user)) :
                    j.user_id = response'.user
               /\ response'.code = 200
                    => JobOf(analysis_jobs, response'.body.analysis_id).user_id
                         = response'.user]_vars

\* a user asked to delete the job of another user, after a job was
\* started and deleted: the answer is 403 and the job is still registered
C18_Witness ==
  /\ response.route = "delete_analysis"
  /\ response.code = 403
  /\ HasJob(analysis_jobs, response.id)
  /\ JobOf(analysis_jobs, response.id).user_id # response.user
  /\ Cardinality(issued) > Len(analysis_jobs)

\* both users own a job, and the list of one of them shows one job
C18_WitnessList ==
  /\ Len(analysis_jobs) = 2
  /\ analysis_jobs[1].user_id # analysis_jobs[2].user_id
  /\ response.route = "list_analyses"
  /\ Len(response.body.analyses) = 1
  /\ response.body.analyses[1].analysis_id = analysis_jobs[2].id
  /\ response.user = analysis_jobs[2].user_id

\* the completed job of another user is asked for: 403, not its results
C18_WitnessResults ==
  /\ response.route = "get_analysis_results"
  /\ response.code = 403
  /\ HasJob(analysis_jobs, response.id)
  /\ JobOf(analysis_jobs, response.id).status = "completed"

\* get_last_analysis had a completed job of the caller to pick, while
\* another user owns a completed job as well
C18_WitnessLast ==
  /\ response.route = "get_last_analysis"
  /\ response.code # 404
  /\ \E i \in 1..Len(analysis_jobs) :
       /\ analysis_jobs[i].user_id # response.user
       /\ analysis_jobs[i].status = "completed"

(***************************************************************************)
(* Properties of the provider registry, under SpecConfig.                  *)
(***************************************************************************)
\* C19: add_custom_provider with an id that is not registered makes
\* get_email_provider return the given configuration afterwards; with a
\* registered id it raises ValueError("Provider '<id>' already exists")
\* and leaves the registered providers, config_data and the file unchanged
C19_AddCustomProvider ==
  [][(last_call' # last_call /\ last_call'.op = "add_custom_provider") =>
       IF last_call'.id \notin DOMAIN email_providers
       THEN /\ get_provider(email_providers', last_call'.id) = last_call'.config
            /\ last_call'.raised
                 # ValueError(<<"Provider '", last_call'.id, "' already exists">>)
       ELSE /\ last_call'.raised
                 = ValueError(<<"Provider '", last_call'.id, "' already exists">>)
            /\ email_providers' = email_providers
            /\ config_data' = config_data
            /\ config_file' = config_file]_vars

\* what get_email_provider returned is what the registry holds
C19_GetReturnsRegistered ==
  last_call.op = "get_email_provider"
    => /\ last_call.raised = None
       /\ last_call.value = get_provider(email_providers, last_call.id)

\* "custom" was added and get_email_provider returned its configuration
C19_Witness ==
  /\ last_call.op = "get_email_provider"
  /\ last_call.id = "custom"
  /\ last_call.value = Some(SampleProvider)
  /\ ValueOf(ValueOf(config_data).email_providers)["custom"] = asdict(SampleProvider)
  /\ config_file = Some(json_dump(config_data))

\* "custom" was added twice: the second call raised, the first
\* configuration is still registered
C19_WitnessExisting ==
  /\ last_call.op = "add_custom_provider"
  /\ last_call.id = "custom"
  /\ last_call.config = Some(PlainProvider)
  /\ last_call.raised = ValueError(<<"Provider '", "custom", "' already exists">>)
  /\ email_providers["custom"] = SampleProvider

\* C20: remove_provider of a registered id removes it, get_email_provider
\* returns None for it afterwards and every other provider is unchanged;
\* of an id that is not registered it raises
\* ValueError("Provider '<id>' does not exist") and changes nothing
C20_RemoveProvider ==
  [][(last_call' # last_call /\ last_call'.op = "remove_provider") =>
       IF last_call'.id \in DOMAIN email_providers
       THEN /\ get_provider(email_providers', last_call'.id) = None
            /\ DOMAIN email_providers' = DOMAIN email_providers \ {last_call'.id}
            /\ \A other \in DOMAIN email_providers' :
                 email_providers'[other] = email_providers[other]
            /\ last_call'.raised
                 # ValueError(<<"Provider '", last_call'.id, "' does not exist">>)
       ELSE /\ last_call'.raised
                 = ValueError(<<"Provider '", last_call'.id, "' does not exist">>)
            /\ email_providers' = email_providers
            /\ config_data' = config_data
            /\ config_file' = config_file]_vars

\* "test" was added and removed again next to "custom" and the default
\* providers, and get_email_provider returned None for it
C20_Witness ==
  /\ last_call.op = "get_email_provider"
  /\ last_call.id = "test"
  /\ last_call.value = None
  /\ DOMAIN email_providers = {"gmail", "outlook", "yahoo", "custom"}
  /\ email_providers["custom"] = PlainProvider
  /\ DOMAIN ValueOf(ValueOf(config_data).email_providers) = DOMAIN email_providers

\* an id that is not registered was to be removed
C20_WitnessNonexistent ==
  /\ last_call.op = "remove_provider"
  /\ last_call.id = "test"
  /\ last_call.raised = ValueError(<<"Provider '", "test", "' does not exist">>)
  /\ "custom" \in DOMAIN email_providers


(***************************************************************************)
(* Properties of the construction of a ConfigManager, under SpecLoad.      *)
(***************************************************************************)
\* the configuration has no section of the name
LacksSection(data, key) ==
  TypeOf(data) # "dict" \/ key \notin DOMAIN ValueOf(data)

\* a provider lacks a required field, or has a port that is not an integer
\* (as isinstance(port, int) has it) or is not positive
ProviderInvalid(provider_data) ==
  /\ TypeOf(provider_data) = "dict"
  /\ \/ \E i \in 1..Len(RequiredFields) : RequiredFields[i] \notin DOMAIN ValueOf(provider_data)
     \/ \E port \in {"imap_port", "smtp_port"} :
          /\ port \in DOMAIN ValueOf(provider_data)
          /\ InvalidPort(ValueOf(provider_data)[port])

\* the settings give a theme or a log level outside the valid ones
SettingsInvalid(settings_data) ==
  /\ TypeOf(settings_data) = "dict"
  /\ \/ /\ "theme" \in DOMAIN ValueOf(settings_data)
        /\ ValueOf(settings_data).theme \notin ValidThemes
     \/ /\ "log_level" \in DOMAIN ValueOf(settings_data)
        /\ ValueOf(settings_data).log_level \notin ValidLogLevels

\* the file holds a configuration of one of the kinds the constructor is to
\* refuse
InvalidConfiguration(text) ==
  \/ Undecodable(text)
  \/ LET data == json_load(text)
     IN  \/ LacksSection(data, "email_providers")
         \/ LacksSection(data, "app_settings")
         \/ /\ TypeOf(ValueOf(data).email_providers) = "dict"
            /\ \E id \in DOMAIN ValueOf(ValueOf(data).email_providers) :
                 ProviderInvalid(ValueOf(ValueOf(data).email_providers)[id])
         \/ SettingsInvalid(ValueOf(data).app_settings)

\* the constructor was called on a file that holds such a configuration
ConstructedOnInvalid ==
  /\ last_call # NoCall
  /\ last_call.op = "ConfigManager"
  /\ config_file # None
  /\ InvalidConfiguration(config_file.v)

\* C21: constructing a ConfigManager on a configuration that is
\* unparseable, lacks a section, has a provider without a required field or
\* with a port that is not a positive integer, or has a theme or a log level
\* outside the valid ones, raises ValueError, and no instance exists
C21_InvalidRaisesValueError ==
  ConstructedOnInvalid
    => /\ last_call.raised # None
       /\ last_call.raised.v.type = "ValueError"
       /\ email_providers = <<>>
       /\ app_settings = None

\* on such a configuration the constructor raises some exception, and no
\* instance exists
C21_InvalidRaises ==
  ConstructedOnInvalid
    => /\ last_call.raised # None
       /\ email_providers = <<>>
       /\ app_settings = None

\* the settings have an invalid theme and an unknown key: TypeError
C21_WitnessTypeError ==
  /\ ConstructedOnInvalid
  /\ last_call.raised # None
  /\ last_call.raised.v.type = "TypeError"
  /\ config_file.v
       = json_dump(PyDict([email_providers |-> PyDict(<<>>),
                           app_settings |-> PyDict([theme |-> PyStr("blue"),
                                                    colour |-> PyStr("red")])]))

\* the file lacks app_settings and email_providers is a list: AttributeError
C21_WitnessAttributeError ==
  /\ ConstructedOnInvalid
  /\ last_call.raised # None
  /\ last_call.raised.v.type = "AttributeError"

\* an invalid theme alone: ValueError
C21_WitnessValueError ==
  /\ ConstructedOnInvalid
  /\ last_call.raised = ValueError(<<"Invalid theme">>)

\* a port that is the boolean true is taken for the integer 1: the
\* constructor raises nothing and the provider is registered
C21_WitnessBooleanPort ==
  /\ last_call # NoCall
  /\ last_call.op = "ConfigManager"
  /\ last_call.raised = None
  /\ "test" \in DOMAIN email_providers
  /\ email_providers["test"].imap_port = PyBool(TRUE)


(***************************************************************************)
(* Properties of the thread key, under SpecThreads.                        *)
(***************************************************************************)
\* a subject with every leading Re:/Fwd:/FW: prefix removed
RECURSIVE StripAllPrefixes(_)
StripAllPrefixes(subject) ==
  IF StripPrefix(subject) = subject THEN subject
  ELSE StripAllPrefixes(StripPrefix(subject))

\* the records whose subjects differ from that of record i only by stacked
\* leading prefixes and by case
SameConversation(es, i) ==
  {j \in 1..Len(es) :
     /\ Truthy(es[j].subject)
     /\ Lower(StripAllPrefixes(es[j].subject.v)) = Lower(StripAllPrefixes(es[i].subject.v))}

\* C22: subjects that differ only by any number of stacked leading
\* Re:/Fwd:/FW: prefixes and by case are grouped into the same thread: two
\* or more such records form one thread of thread_analysis, under the
\* subject without prefixes, that counts them all
C22_StackedPrefixesOneThread ==
  (pc = "done" /\ outcome = "returned") =>
    \A i \in 1..Len(emails) :
      (Truthy(emails[i].subject) /\ Cardinality(SameConversation(emails, i)) >= 2) =>
        \E k \in 1..Len(results.thread_analysis.top_threads) :
          /\ results.thread_analysis.top_threads[k].subject
               = Lower(StripAllPrefixes(emails[i].subject.v))
          /\ results.thread_analysis.top_threads[k].count
               = Cardinality(SameConversation(emails, i))

\* "Re: Re: Budget Q1" and "Budget Q1" were analysed and form no thread
C22_WitnessTwoKeys ==
  /\ pc = "done"
  /\ outcome = "returned"
  /\ Len(emails) = 2
  /\ emails[1].subject = Some(TxtReReBudget)
  /\ emails[2].subject = Some(TxtBudget)
  /\ results.thread_analysis.total_threads = 0
  /\ ThreadKey(TxtReReBudget) = Lower(TxtReBudget)


(***************************************************************************)
(* Properties of the thread statistics, under SpecManyThreads.             *)
(***************************************************************************)
\* the records that have a subject, and the keys of their groups
WithSubject(es) == {i \in 1..Len(es) : Truthy(es[i].subject)}

GroupKeys(es) == {ThreadKey(es[i].subject.v) : i \in WithSubject(es)}

GroupSize(es, key) ==
  Cardinality({i \in WithSubject(es) : ThreadKey(es[i].subject.v) = key})

\* C23: in thread_analysis total_threads is the number of subject groups
\* with at least 2 members; top_threads holds at most 10 of them, each once
\* and with its size, in non-increasing size; largest_thread is the first
\* entry of top_threads, None when there is no thread, and its count is the
\* greatest group size; avg_thread_size is the mean size of all threads and
\* is at least 2 when there is a thread
C23_ThreadStatistics ==
  (pc = "done" /\ outcome = "returned" /\ emails # <<>>) =>
    LET t == results.thread_analysis
        top == t.top_threads
        sizes == [key \in GroupKeys(emails) |-> GroupSize(emails, key)]
        threads == {key \in GroupKeys(emails) : sizes[key] >= 2}
        members == {i \in WithSubject(emails) : ThreadKey(emails[i].subject.v) \in threads}
    IN  /\ t.total_threads = Cardinality(threads)
        /\ Len(top) <= 10
        /\ Len(top) <= Cardinality(threads)
        /\ \A k \in 1..Len(top) :
             /\ top[k].subject \in threads
             /\ top[k].count = sizes[top[k].subject]
        /\ \A k, l \in 1..Len(top) :
             k < l => /\ top[k].subject # top[l].subject
                      /\ top[k].count >= top[l].count
        /\ IF threads = {}
           THEN t.largest_thread = None /\ top = <<>>
           ELSE /\ t.largest_thread = Some(top[1])
                /\ \A key \in threads : top[1].count >= sizes[key]
        /\ threads # {} =>
             /\ t.avg_thread_size = Frac(Cardinality(members), Cardinality(threads))
             /\ t.avg_thread_size.num >= 2 * t.avg_thread_size.den

\* one thread more than the base holds was found, the largest of 3
\* records; ten are reported
C23_Witness ==
  /\ pc = "done"
  /\ outcome = "returned"
  /\ Len(emails) = 2 * ThreadBaseCount + 3
  /\ results.thread_analysis.total_threads = ThreadBaseCount + 1
  /\ Len(results.thread_analysis.top_threads) = 10
  /\ results.thread_analysis.largest_thread.v.count = 3
  /\ results.thread_analysis.top_threads[2].count = 2

\* no group has two members
C23_WitnessNoThread ==
  /\ pc = "done"
  /\ outcome = "returned"
  /\ Len(emails) = 3
  /\ results.thread_analysis.total_threads = 0
  /\ results.thread_analysis.largest_thread = None


(***************************************************************************)
(* Properties of the sentiment classes, under SpecSentiment.               *)
(***************************************************************************)
\* the number of different words of a vocabulary in subject plus body
DistinctMatches(email, vocabulary) ==
  Cardinality(SeqToSet(Words(SubjectAndBody(email))) \cap vocabulary)

\* the records of a class
ClassMembers(es, class) ==
  {i \in 1..Len(es) :
     LET positive == DistinctMatches(es[i], positive_words)
         negative == DistinctMatches(es[i], negative_words)
     IN  class = IF positive > negative THEN "positive"
                 ELSE IF positive < negative THEN "negative"
                 ELSE "neutral"}

\* positive_percentage + negative_percentage + neutral_percentage, added
\* as floats
PercentageSum(s) ==
  FloatAdd(FloatAdd(s.positive_percentage, s.negative_percentage), s.neutral_percentage)

\* every record is counted in its class: positive when it has more
\* different positive than negative words, negative when fewer, neutral
\* otherwise; the three counts add up to total_emails
SentimentCounts ==
  LET s == results.sentiment_analysis
  IN  /\ s.positive = Cardinality(ClassMembers(emails, "positive"))
      /\ s.negative = Cardinality(ClassMembers(emails, "negative"))
      /\ s.neutral = Cardinality(ClassMembers(emails, "neutral"))
      /\ s.positive + s.negative + s.neutral = results.total_emails
      /\ results.total_emails = Len(emails)

\* C24 as stated: every record is counted in exactly one class by its
\* different positive and negative words, the counts add up to
\* total_emails, and the three percentages add up to 100
C24_PercentagesSumTo100 ==
  (pc = "done" /\ outcome = "returned" /\ emails # <<>>) =>
    /\ SentimentCounts
    /\ PercentageSum(results.sentiment_analysis) = FloatOfInt(100)

\* C24, amended: every record is counted in exactly one class by its
\* different positive and negative words, the counts add up to
\* total_emails, each percentage is the float (count / total) * 100, and
\* the three percentages add up to 100 within one millionth
C24_PercentagesSumNear100 ==
  (pc = "done" /\ outcome = "returned" /\ emails # <<>>) =>
    LET s == results.sentiment_analysis
    IN  /\ SentimentCounts
        /\ s.positive_percentage = FloatMulInt(IntDiv(s.positive, Len(emails)), 100)
        /\ s.negative_percentage = FloatMulInt(IntDiv(s.negative, Len(emails)), 100)
        /\ s.neutral_percentage = FloatMulInt(IntDiv(s.neutral, Len(emails)), 100)
        /\ FloatLess(IntDiv(99999999, 1000000), PercentageSum(s))
        /\ FloatLess(PercentageSum(s), IntDiv(100000001, 1000000))

\* three records, one of each class: the percentages add up to a float
\* below 100
C24_Witness ==
  /\ pc = "done"
  /\ outcome = "returned"
  /\ Len(emails) = 3
  /\ results.sentiment_analysis.positive = 1
  /\ results.sentiment_analysis.negative = 1
  /\ results.sentiment_analysis.neutral = 1
  /\ FloatLess(PercentageSum(results.sentiment_analysis), FloatOfInt(100))

\* two records of two classes: the percentages add up to 100
C24_WitnessExact ==
  /\ pc = "done"
  /\ outcome = "returned"
  /\ Len(emails) = 2
  /\ results.sentiment_analysis.positive = 1
  /\ results.sentiment_analysis.negative = 1
  /\ PercentageSum(results.sentiment_analysis) = FloatOfInt(100)


(***************************************************************************)
(* Properties of records without a subject, under SpecKeywords.            *)
(***************************************************************************)
\* the text a record is to contribute: subject and body, the body alone
\* when the subject is None
TextWithoutMissing(email) ==
  Lower(IF email.subject.none THEN email.body
        ELSE email.subject.v \o <<" ">> \o email.body)

\* the tokens of these texts that are kept as keywords
TokensWithoutMissing(es) ==
  UNION {{w \in SeqToSet(AlphaWords(TextWithoutMissing(es[i]))) : w \notin stop_words} :
           i \in 1..Len(es)}

\* C25: a record whose subject is None contributes to keyword_analysis the
\* tokens of its body and no token derived from the missing subject: the
\* keywords are the tokens of the subjects that are present and of the
\* bodies, and a record with no subject and an empty body contributes none
C25_AbsentSubjectNoToken ==
  (pc = "done" /\ outcome = "returned" /\ emails # <<>>) =>
    LET k == results.keyword_analysis
    IN  /\ k.total_unique_words = Cardinality(TokensWithoutMissing(emails))
        /\ \A i \in 1..Len(k.top_keywords) :
             k.top_keywords[i][1] \in TokensWithoutMissing(emails)

\* the sentiment class of a record without a subject is that of its body
C25_SentimentOfBody ==
  (pc = "done" /\ outcome = "returned" /\ emails # <<>>) =>
    \A class \in {"positive", "negative", "neutral"} :
      results.sentiment_analysis[class]
        = Cardinality({i \in 1..Len(emails) :
             class = LET words == SeqToSet(Words(TextWithoutMissing(emails[i])))
                         positive == Cardinality(words \cap positive_words)
                         negative == Cardinality(words \cap negative_words)
                     IN  IF positive > negative THEN "positive"
                         ELSE IF positive < negative THEN "negative"
                         ELSE "neutral"})

\* one record without subject and with an empty body: the keyword "none" is
\* reported once
C25_WitnessNone ==
  /\ pc = "done"
  /\ outcome = "returned"
  /\ emails = <<Texted(None, <<>>)>>
  /\ results.keyword_analysis.top_keywords = <<<<<<"n","o","n","e">>, 1>>>>
  /\ results.keyword_analysis.total_unique_words = 1


(***************************************************************************)
(* Properties of the results of completed jobs, under SpecJobs.            *)
(***************************************************************************)
\* C26: for a job that run_analysis_task has completed, get_analysis_results
\* called by its owner answers with a successful AnalysisResponse, and
\* get_last_analysis of a user with a completed job answers with the most
\* recently created completed job of that user
C26_CompletedResultsServed ==
  [][response' # response =>
       /\ (response'.route = "get_analysis_results"
             /\ HasJob(analysis_jobs, response'.id)
             /\ JobOf(analysis_jobs, response'.id).user_id = response'.user
             /\ JobOf(analysis_jobs, response'.id).status = "completed")
            => /\ response'.code = 200
               /\ response'.body.analysis_id = response'.id
       /\ (response'.route = "get_last_analysis"
             /\ CompletedOf(analysis_jobs, response'.user) # <<>>)
            => /\ response'.code = 200
               /\ response'.body.analysis_id
                    = LatestOf(CompletedOf(analysis_jobs, response'.user)).id]_vars

\* a completed job holds no results: run_analysis_task stores none
C26_CompletedWithoutResults ==
  \A i \in 1..Len(analysis_jobs) :
    analysis_jobs[i].status = "completed" => analysis_jobs[i].results = None

\* the owner asked for the results of a completed job and got an internal
\* server error
C26_WitnessResults ==
  /\ response.route = "get_analysis_results"
  /\ response.code = 500
  /\ HasJob(analysis_jobs, response.id)
  /\ JobOf(analysis_jobs, response.id).user_id = response.user
  /\ JobOf(analysis_jobs, response.id).status = "completed"

\* a user with a completed job asked for the last analysis and got an
\* internal server error
C26_WitnessLast ==
  /\ response.route = "get_last_analysis"
  /\ response.code = 500
  /\ CompletedOf(analysis_jobs, response.user) # <<>>


(***************************************************************************)
(* Properties of the background task, under SpecJobs.                      *)
(***************************************************************************)
\* C27: run_analysis_task lets no exception escape, whatever starts and
\* deletions come before it and also when its job was deleted before it
\* started: the task returns normally
C27_TaskNeverRaises == task.pc # "raised"

\* a failure is recorded as status "failed" when the job still exists, and
\* the task creates no entry: a step of the task leaves the ids of the
\* registry as they are
C27_NoEntryRecreated ==
  [][task' # task =>
       /\ [i \in 1..Len(analysis_jobs') |-> analysis_jobs'[i].id]
            = [i \in 1..Len(analysis_jobs) |-> analysis_jobs[i].id]
       /\ (task.pc = "except" /\ HasJob(analysis_jobs, task.id))
            => JobOf(analysis_jobs', task.id).status = "failed"]_vars

\* the job was deleted before its task started: the KeyError of the try
\* block was caught, the except block raised KeyError again, and the
\* registry holds no entry of the id
C27_WitnessEscaped ==
  /\ task.pc = "raised"
  /\ ~HasJob(analysis_jobs, task.id)
  /\ response.route = "delete_analysis"
  /\ response.code = 200
  /\ response.id = task.id


(***************************************************************************)
(* Properties of fetch_emails, under SpecManager.                          *)
(***************************************************************************)
\* the uids of the messages of the search result from position `from` up
\* to position `to` (counted from 0, `to` excluded) that can be fetched and
\* parsed
WindowUids(mailbox, from, to) ==
  LET window == IF from < to THEN SubSeq(mailbox, from + 1, to) ELSE <<>>
      fetched == SelectSeq(window, LAMBDA message : message.fetch = "OK")
  IN  [i \in 1..Len(fetched) |-> fetched[i].uid]

\* what fetch_emails is to return on a mailbox
ClaimedWindow(mailbox, limit, offset) ==
  IF offset >= Len(mailbox) THEN <<>>
  ELSE WindowUids(mailbox,
                  IF Len(mailbox) - offset - limit > 0
                  THEN Len(mailbox) - offset - limit ELSE 0,
                  Len(mailbox) - offset)

\* fetch_emails returned a list
Fetched == manager_call.op = "fetch_emails" /\ manager_call.raised = None

\* C28: on a connected manager fetch_emails(limit, offset) with limit >= 0
\* and offset >= 0 returns at most limit messages: those at the positions
\* max(0, n - offset - limit) up to n - offset of the n messages of the
\* search result, none when offset >= n, without those that fail to fetch
\* or parse
C28_FetchWindow ==
  Fetched =>
    /\ Len(ValueOf(manager_call.value)) <= manager_call.args[2]
    /\ ValueOf(manager_call.value)
         = ClaimedWindow(manager_call.args[1], manager_call.args[2], manager_call.args[3])

\* the same for the calls whose offset is at most the number of messages
C28_FetchWindowWithin ==
  (Fetched /\ manager_call.args[3] <= Len(manager_call.args[1])) =>
    /\ Len(ValueOf(manager_call.value)) <= manager_call.args[2]
    /\ ValueOf(manager_call.value)
         = ClaimedWindow(manager_call.args[1], manager_call.args[2], manager_call.args[3])

\* three messages, limit 1, offset 4: the two oldest messages are returned
C28_WitnessBeyond ==
  /\ Fetched
  /\ Len(manager_call.args[1]) = 3
  /\ \A i \in 1..3 : manager_call.args[1][i].fetch = "OK"
  /\ manager_call.args[2] = 1
  /\ manager_call.args[3] = 4
  /\ ValueOf(manager_call.value) = <<1, 2>>

\* three messages, the second of which cannot be fetched, limit 2, offset
\* 0: the last message alone is returned
C28_WitnessSkipped ==
  /\ Fetched
  /\ Len(manager_call.args[1]) = 3
  /\ manager_call.args[1][2].fetch = "NO"
  /\ manager_call.args[2] = 2
  /\ manager_call.args[3] = 0
  /\ ValueOf(manager_call.value) = <<3>>


(***************************************************************************)
(* Properties of connect and disconnect, under SpecManager.                *)
(***************************************************************************)
\* C29: is_connected() is True only if the most recent connect returned
\* True and no disconnect followed it: a connect that raises leaves
\* is_connected() False, also on a manager that was connected before; a
\* disconnect leaves it False, also when logout raises; no other call
\* changes it
C29_ConnectedOnlyAfterConnect ==
  [][/\ (manager_call'.op = "connect" /\ manager_call'.raised # None)
          => ~is_connected_value'
     /\ manager_call'.op = "disconnect" => ~is_connected_value'
     /\ manager_call'.op \notin {"connect", "disconnect"}
          => is_connected_value' = is_connected_value]_vars

\* the same without the connects that raise on a connected manager
C29_ExceptReconnect ==
  [][/\ (manager_call'.op = "connect" /\ manager_call'.raised # None /\ ~is_connected_value)
          => ~is_connected_value'
     /\ manager_call'.op = "disconnect" => ~is_connected_value'
     /\ manager_call'.op \notin {"connect", "disconnect"}
          => is_connected_value' = is_connected_value]_vars

\* a connect on a connected manager raised EmailAuthenticationError at the
\* login: the new session is not logged in, and is_connected() is True
C29_WitnessStillConnected ==
  /\ manager_call.op = "connect"
  /\ manager_call.raised = EmailAuthenticationError(<<"Authentication failed">>)
  /\ is_connected_value
  /\ connection.v.state = "NONAUTH"

\* a disconnect whose logout raised: is_connected() is False
C29_WitnessLogoutRaised ==
  /\ manager_call.op = "disconnect"
  /\ manager_call.io = "raises"
  /\ ~is_connected_value
  /\ connects > 0

(***************************************************************************)
(* C30: the round trip of the configuration through its file.              *)
(***************************************************************************)
UpdateCalls ==
  {"update_email_provider", "update_app_settings", "add_custom_provider",
   "remove_provider"}

\* the last call was one of the four updates and raised nothing
UpdateSucceeded == last_call.op \in UpdateCalls /\ last_call.raised = None

\* the in-memory providers have the ids of the stored configuration
SameIds == DOMAIN email_providers = DOMAIN ValueOf(ValueOf(config_data).email_providers)

\* ConfigManager(config_path) over the file as it is now succeeds and has
\* the providers and the settings of this manager
Reloaded ==
  LET made == Construct("written")
  IN  /\ made.raised = None
      /\ made.email_providers = email_providers
      /\ made.app_settings = app_settings

\* the in-memory configuration passes the checks of _validate_config
HeldValid ==
  /\ \A id \in DOMAIN email_providers :
       _validate_email_provider(id, asdict(email_providers[id])).raised = None
  /\ _validate_app_settings(asdict(app_settings.v)).raised = None

\* C30: after a successful update_email_provider, update_app_settings,
\* add_custom_provider or remove_provider the in-memory providers have the
\* ids of the stored configuration, and a new ConfigManager constructed from
\* the saved file succeeds with the same providers and application settings.
C30_SaveLoadRoundTrip == UpdateSucceeded => SameIds /\ Reloaded

\* C30, for configurations and settings that pass the checks of
\* _validate_config: the ids agree after every call, and after a successful
\* update the file loads into the same providers and settings.
C30_RoundTripOfValid ==
  /\ SameIds
  /\ UpdateSucceeded /\ HeldValid => Reloaded

\* a successful update_email_provider left a file the constructor rejects
C30_WitnessUnloadableProvider ==
  /\ last_call.op = "update_email_provider" /\ last_call.raised = None
  /\ last_call.config = Some(ZeroPortProvider)
  /\ Construct("written").raised = ValueError(<<"Invalid IMAP port for provider '", last_call.id, "'">>)

\* a successful update_app_settings left a file the constructor rejects
C30_WitnessUnloadableSettings ==
  /\ last_call.op = "update_app_settings" /\ last_call.raised = None
  /\ app_settings = Some(BlueSettings)
  /\ \A id \in DOMAIN email_providers : email_providers[id].imap_port # PyInt(0)
  /\ Construct("written").raised # None

\* a successful update of valid settings and providers that loads back
C30_WitnessRoundTrip ==
  /\ UpdateSucceeded /\ HeldValid /\ Reloaded
  /\ app_settings = Some(LightSettings)
  /\ "custom" \in DOMAIN email_providers
  /\ "gmail" \notin DOMAIN email_providers

====
